---- MODULE Spec2Model ----
(***************************************************************************)
(* Model of the SNMP session used by syno_exporter (vendored gosnmp):      *)
(*   - the request/response exchange of GoSNMP.send / sendOneRequest       *)
(*     (marshal.go), with its retry counter, the two deadlines and the     *)
(*     receive loop;                                                       *)
(*   - the subtree walk of GoSNMP.walk (walk.go);                          *)
(*   - the wire codec of messages of version 1 and 2c (marshal.go), byte   *)
(*     by byte;                                                            *)
(*   - several callers on two sessions, and overlapping scrapes of the     *)
(*     exporter on its one session.                                        *)
(* Time is a discrete clock that may advance between any two steps.        *)
(***************************************************************************)
EXTENDS Integers, Naturals, Sequences, FiniteSets, TLC

\* ---------------------------------------------------------------- bounds
MaxRetries == 2
MaxTimeout == 3
MaxTime == 4
MaxRequests == 2
MaxWalkRequests == 2
MaxBindings == 3
MaxVarbinds == 3
MaxOctets == 40
MaxCalls == 3
MaxClock == 2

\* ------------------------------------------------------ program constants
Version2c == 1
Version3 == 3
AuthNoPriv == 1
UserSecurityModel == 3
Sequence == 48
GetRequest == 160
GetNextRequest == 161
GetResponse == 162
GetBulkRequest == 165
SNMPv2Trap == 167
Report == 168
Half == 65536

\* a uint32 is the pair <<high 16 bits, low 16 bits>>
U32(hi, lo) == <<hi, lo>>

\* a counter that stays at its greatest value
AddUint32_saturating(id) ==
    IF id = <<Half - 1, Half - 1>> THEN id
    ELSE IF id[2] = Half - 1 THEN <<id[1] + 1, 0>> ELSE <<id[1], id[2] + 1>>

\* atomic.AddUint32(&x, 1): the sum modulo 2^32
AddUint32(id) ==
    IF id[2] = Half - 1 THEN <<(id[1] + 1) % Half, 0>> ELSE <<id[1], id[2] + 1>>

Range(s) == {s[i] : i \in DOMAIN s}

\* ------------------------------------------------------------------ state
VARIABLES
    Retries,        \* x.Retries
    configured,     \* history: Retries as the caller set it
    Timeout,        \* x.Timeout
    Version,        \* x.Version / packetOut.Version
    MsgFlags,       \* packetOut.MsgFlags
    wait,           \* argument of send
    requestID,      \* x.requestID, the session's 32-bit counter
    now,            \* time.Now()
    pc,             \* position of the caller inside send / sendOneRequest
    finalDeadline,  \* local of sendOneRequest
    reqDeadline,    \* deadline set on x.Conn
    retries,        \* loop variable of sendOneRequest
    allReqIDs,      \* local of sendOneRequest
    err,            \* error value of sendOneRequest
    errCount,       \* the %d of "Request timeout (after %d retries)"
    result,         \* returned packet: <<>> is nil, <<p>> is &p
    sent,           \* datagrams written by the current logical request
    lastAct,        \* the last step taken by the caller
    lastRx,         \* the last datagram read and what unmarshal said of it
    allLost,        \* so far every attempt ended by its read deadline expiring
    reqNo,          \* logical requests started on this session
    wpc,            \* position of the caller inside walk
    rootOid,        \* walk: rootOid, a string
    oid,            \* walk: oid, the cursor, a string
    requests,       \* walk: requests
    response,       \* walk: response.Variables
    responseError,  \* walk: response.Error
    idx,            \* walk: position of the range loop in response.Variables
    yielded,        \* the bindings passed to walkFn, in order
    walkErr,        \* the error walk returns
    getErr,         \* the error of the last getFn call
    fnErr,          \* the error of the last walkFn call
    nPrior,         \* bindings received in the responses before this one
    codecPc,        \* codec: how far a message has come
    txPdus,         \* codec: the bindings handed to marshalMsg
    txType,         \* codec: packet.PDUType
    txID,           \* codec: the request id handed to marshalMsg
    txCommunity,    \* codec: packet.Community
    txErr,          \* codec: the error of marshalMsg
    wire,           \* codec: the bytes of the message
    tamper,         \* codec: what happened to the bytes on their way
    rxPacket,       \* codec: what unmarshal made of the bytes
    sessRequestID,  \* sessions: x.requestID of every session
    sessDeadline,   \* sessions: the deadline set on x.Conn of every session
    sessRxBuf,      \* sessions: x.rxBuf, the datagram read last
    sessConn,       \* sessions: x.Conn, the responses waiting to be read
    callerPc,       \* sessions: position of every caller inside sendOneRequest
    callerReqIDs,   \* sessions: allReqIDs of every caller
    callerCalls,    \* sessions: logical requests the callers have started
    sessClock,      \* sessions: time.Now()
    lastCaller,     \* sessions: the caller that made the last step, 0 for none
    scrapePc,       \* exporter: position of every scrape inside Collect
    scrapeFamily,   \* exporter: the collect call every scrape has come to
    expConn,        \* exporter: the scrapes whose response waits on Client.SNMP
    scrapeRead,     \* exporter: whose response every scrape read last, 0 for none
    scrapeOut,      \* exporter: what the last collect call of every scrape did
    v3Pc,           \* version 3: how far a message has come
    v3In,           \* version 3: the packet handed to marshalMsg
    v3Wire,         \* version 3: the bytes of the message
    v3AuthStart,    \* version 3: authParamStart as marshalMsg hands it on
    v3Tamper,       \* version 3: the bit flipped on the way, <<0, 0>> for none
    v3Rx            \* version 3: what unmarshal made of the bytes

sendVars == <<Retries, configured, Timeout, Version, MsgFlags, wait, requestID, now, pc,
              finalDeadline, reqDeadline, retries, allReqIDs, err, errCount,
              result, sent, lastAct, lastRx, allLost, reqNo>>

walkVars == <<wpc, rootOid, oid, requests, response, responseError, idx,
              yielded, walkErr, getErr, fnErr, nPrior>>

codecVars == <<codecPc, txPdus, txType, txID, txCommunity, txErr, wire, tamper,
               rxPacket>>

\* what neither an exchange nor a walk touches
sessVars == <<sessRequestID, sessDeadline, sessRxBuf, sessConn, callerPc,
              callerReqIDs, callerCalls, sessClock, lastCaller>>

expVars == <<scrapePc, scrapeFamily, expConn, scrapeRead, scrapeOut>>

v3Vars == <<v3Pc, v3In, v3Wire, v3AuthStart, v3Tamper, v3Rx>>

restVars == <<codecVars, sessVars, expVars, v3Vars>>

vars == <<sendVars, walkVars, restVars>>

\* --------------------------------------------------------------- datagrams
\* A received datagram, by the fields unmarshal looks at, in the order it
\* looks at them.
Datagram(n, tag0, declLen, version, secModel, authentic, fieldsOK, pdu, rid, nvars) ==
    [n |-> n, tag0 |-> tag0, declLen |-> declLen, version |-> version,
     secModel |-> secModel, authentic |-> authentic, fieldsOK |-> fieldsOK,
     pdu |-> pdu, rid |-> rid, nvars |-> nvars]

NoDatagram == Datagram(0, 0, 0, 0, 0, FALSE, FALSE, 0, U32(0, 0), 0)

\* &SnmpPacket{}
EmptyPacket == [Version |-> 0, PDUType |-> 0, RequestID |-> U32(0, 0), NVars |-> 0]

\* unmarshal without the digest check
unmarshal_noDigest(d, OrigMsgFlags) ==
    IF d.n = 0 THEN "panic"
    ELSE IF d.tag0 # Sequence THEN "Invalid packet header"
    ELSE IF d.n # d.declLen THEN "Error verifying packet sanity"
    ELSE IF ~d.fieldsOK THEN "Error parsing"
    ELSE IF d.pdu \notin {GetResponse, GetNextRequest, GetBulkRequest, Report, SNMPv2Trap}
         THEN "Unknown PDUType"
    ELSE "ok"

\* unmarshal without the default branch of the PDU type switch
unmarshal_anyPDU(d, OrigMsgFlags) ==
    IF d.n = 0 THEN "panic"
    ELSE IF d.tag0 # Sequence THEN "Invalid packet header"
    ELSE IF d.n # d.declLen THEN "Error verifying packet sanity"
    ELSE IF ~d.fieldsOK THEN "Error parsing"
    ELSE IF d.version = Version3 /\ d.secModel = UserSecurityModel
            /\ (OrigMsgFlags % 2) = AuthNoPriv /\ ~d.authentic
         THEN "Incoming packet is not authentic, discarding"
    ELSE "ok"

\* unmarshal: "panic", an error, or "ok"
unmarshal(d, OrigMsgFlags) ==
    IF d.n = 0 THEN "panic"
    ELSE IF d.tag0 # Sequence THEN "Invalid packet header"
    ELSE IF d.n # d.declLen THEN "Error verifying packet sanity"
    ELSE IF ~d.fieldsOK THEN "Error parsing"
    ELSE IF d.version = Version3 /\ d.secModel = UserSecurityModel
            /\ (OrigMsgFlags % 2) = AuthNoPriv /\ ~d.authentic
         THEN "Incoming packet is not authentic, discarding"
    ELSE IF d.pdu \notin {GetResponse, GetNextRequest, GetBulkRequest, Report, SNMPv2Trap}
         THEN "Unknown PDUType"
    ELSE "ok"

\* the packet unmarshal fills in
Decoded(d) ==
    [Version |-> d.version, PDUType |-> d.pdu, RequestID |-> d.rid,
     NVars |-> d.nvars]

\* validID that looks at the latest attempt only
validID_latestOnly(ids, rid) ==
    (ids # <<>> /\ ids[Len(ids)] = rid) \/ rid = U32(0, 0)

\* the validID loop of sendOneRequest
validID(ids, rid) ==
    (\E i \in DOMAIN ids : ids[i] = rid) \/ rid = U32(0, 0)

\* a deadline test that is one tick late
deadlinePassed_late(t, deadline) == t > deadline + 1

\* the two tests at the top of a retry
deadlinePassed(t, deadline) == t > deadline

\* retry tests that are off by one, either way
retriesExhausted_early(r, max) == r >= max

retriesExhausted_late(r, max) == r > max + 1

retriesExhausted(r, max) == r > max

\* a count of attempts instead of retries
timeoutCount_attempts(r) == r

\* the count printed by the timeout error
timeoutCount(r) == r - 1

\* a receive loop that leaves on an out of order response
receiveLoop_leaves(d, flags, ids) ==
    LET u == unmarshal(d, flags) IN
    IF u = "panic" THEN "panic"
    ELSE IF u # "ok" THEN "continue"
    ELSE IF d.nvars < 1 THEN "continue"
    ELSE "break"

\* a receive loop without the test of the number of bindings
receiveLoop_takesEmpty(d, flags, ids) ==
    LET u == unmarshal(d, flags) IN
    IF u = "panic" THEN "panic"
    ELSE IF u # "ok" THEN "continue"
    ELSE IF ~validID(ids, d.rid) THEN "continue"
    ELSE "break"

\* what the receive loop does with a datagram: "panic", "continue" (receive
\* again) or "break" (success)
receiveLoop(d, flags, ids) ==
    LET u == unmarshal(d, flags) IN
    IF u = "panic" THEN "panic"
    ELSE IF u # "ok" THEN "continue"
    ELSE IF d.nvars < 1 THEN "continue"
    ELSE IF ~validID(ids, d.rid) THEN "continue"
    ELSE "break"

\* the error left in err by one pass of the receive loop
receiveErr(d, flags, ids) ==
    LET u == unmarshal(d, flags) IN
    IF u = "panic" THEN "recover"
    ELSE IF u # "ok" THEN "Unable to decode packet"
    ELSE IF d.nvars < 1 THEN "Unable to decode packet: nil"
    ELSE IF ~validID(ids, d.rid) THEN "Out of order response"
    ELSE "nil"

\* a send without its deferred function: a panic ends the process
recovered_absent(e) == [pc |-> "aborted", err |-> "nil"]

\* the deferred function of send: the panic e becomes the error of send
recovered(e) == [pc |-> "done", err |-> "recover"]

\* what setAuthoritativeEngine may come back with
DiscoveryOutcomes == {"nil", "discovery failed"}

\* a send that goes on to the request after a failed discovery
discoveryFailed_ignored(e) == [pc |-> "loop", err |-> "nil"]

\* send after setAuthoritativeEngine has failed with e
discoveryFailed(e) == [pc |-> "done", err |-> e]

\* ------------------------------------------------------------------- Init
\* a session on which no request was made yet
SessionIdle ==
    /\ configured = Retries
    /\ now = 0
    /\ pc = "idle"
    /\ finalDeadline = 0
    /\ reqDeadline = 0
    /\ retries = 0
    /\ allReqIDs = <<>>
    /\ err = "nil"
    /\ errCount = 0
    /\ result = <<>>
    /\ sent = 0
    /\ lastAct = "none"
    /\ lastRx = [d |-> NoDatagram, u |-> "none"]
    /\ allLost = TRUE
    /\ reqNo = 0

WalkIdle ==
    /\ wpc = "idle"
    /\ rootOid = <<>>
    /\ oid = <<>>
    /\ requests = 0
    /\ response = <<>>
    /\ responseError = "NoError"
    /\ idx = 0
    /\ yielded = <<>>
    /\ walkErr = "nil"
    /\ getErr = "nil"
    /\ fnErr = "nil"
    /\ nPrior = 0

CodecIdle ==
    /\ codecPc = "idle"
    /\ txPdus = <<>>
    /\ txType = GetRequest
    /\ txID = <<0, 0>>
    /\ txCommunity = <<>>
    /\ txErr = "nil"
    /\ wire = <<>>
    /\ tamper = "none"
    /\ rxPacket = [RequestID |-> <<0, 0>>, Variables |-> <<>>, err |-> "nil"]

\* two sessions; callers 1 and 2 share session 1, caller 3 has session 2
Sessions == {1, 2}

Callers == {1, 2, 3}

SessionOf(c) == IF c = 3 THEN 2 ELSE 1

SessionsIdle ==
    /\ sessRequestID = [s \in Sessions |-> U32(0, 5)]
    /\ sessDeadline = [s \in Sessions |-> 0]
    /\ sessRxBuf = [s \in Sessions |-> <<>>]
    /\ sessConn = [s \in Sessions |-> {}]
    /\ callerPc = [c \in Callers |-> "idle"]
    /\ callerReqIDs = [c \in Callers |-> <<>>]
    /\ callerCalls = 0
    /\ sessClock = 0
    /\ lastCaller = 0

\* the scrapes that call Collect
Scrapes == {1, 2}

\* no collect call made yet
NoFetch ==
    [family |-> "none", bindings |-> 0, outcome |-> "none", emitted |-> FALSE,
     afterError |-> FALSE]

ExporterIdle ==
    /\ scrapeOut = [s \in Scrapes |-> NoFetch]
    /\ scrapePc = [s \in Scrapes |-> "idle"]
    /\ scrapeFamily = [s \in Scrapes |-> 0]
    /\ expConn = {}
    /\ scrapeRead = [s \in Scrapes |-> 0]

\* no message unmarshalled yet
NoResult == [err |-> "nil", decrypted |-> FALSE, cursor |-> 0, Variables |-> <<>>]

V3Idle ==
    /\ v3Pc = "idle"
    /\ v3In = <<>>
    /\ v3Wire = <<>>
    /\ v3AuthStart = 0
    /\ v3Tamper = [kind |-> "none", at |-> 0, bit |-> 0]
    /\ v3Rx = NoResult

RestIdle == CodecIdle /\ SessionsIdle /\ ExporterIdle /\ V3Idle

\* the settings of a session; the counter starts at a random value
SendInit ==
    /\ Retries \in -1..MaxRetries
    /\ Timeout \in {0, MaxTimeout}
    /\ \E v \in {<<Version2c, 0>>, <<Version3, 0>>, <<Version3, AuthNoPriv>>} :
          Version = v[1] /\ MsgFlags = v[2]
    /\ wait \in BOOLEAN
    /\ requestID \in {U32(0, 5), U32(Half - 1, Half - 2)}
    /\ SessionIdle

Init == SendInit /\ WalkIdle /\ RestIdle

\* the walks are made on one session
FixedSession ==
    /\ Retries = 0
    /\ Timeout = MaxTimeout
    /\ Version = Version2c /\ MsgFlags = 0
    /\ wait = TRUE
    /\ requestID = U32(0, 5)
    /\ SessionIdle

WalkInit == FixedSession /\ WalkIdle /\ RestIdle

\* ---------------------------------------------------------------- actions
\* time passes
Tick ==
    /\ now < MaxTime
    /\ pc \in {"loop", "receive"}
    /\ now' = now + 1
    /\ UNCHANGED <<Retries, Timeout, Version, MsgFlags, wait, requestID, pc,
                   finalDeadline, reqDeadline, retries, allReqIDs, err,
                   errCount, result, sent, lastAct, lastRx, allLost, reqNo>>
    /\ UNCHANGED <<configured, walkVars, restVars>>

\* a send that leaves a negative Retries alone
setRetries_kept(r) == r

\* send: a negative Retries is reset to 0
setRetries(r) == IF r < 0 THEN 0 ELSE r

\* a loop that clears the error before the retry tests
lastError_cleared(e) == "nil"

\* the error reported when the retries are used up: the last one
lastError(e) == e

\* a marshal failure that goes on to the next attempt
marshalFailed_retried(r) == [err |-> "marshal", pc |-> "loop", retries |-> r + 1]

\* marshalMsg fails: the error is wrapped and the loop is left
marshalFailed(r) == [err |-> "marshal", pc |-> "done", retries |-> r]

\* send up to the call of sendOneRequest, and sendOneRequest up to its loop;
\* with version 3 the discovery comes first, and send returns if it fails
Send ==
    /\ pc = "idle"
    /\ reqNo < MaxRequests
    /\ Retries' = setRetries(Retries)
    /\ allReqIDs' = <<>>
    /\ retries' = 0
    /\ errCount' = 0
    /\ sent' = 0
    /\ lastRx' = [d |-> NoDatagram, u |-> "none"]
    /\ reqNo' = reqNo + 1
    /\ finalDeadline' = now + Timeout
    /\ \E e \in IF Version = Version3 THEN DiscoveryOutcomes ELSE {"nil"} :
          IF e = "nil"
          THEN /\ err' = "nil"
               /\ allLost' = TRUE
               /\ result' = <<>>
               /\ lastAct' = IF Version = Version3 THEN "discovery" ELSE "send"
               /\ pc' = "loop"
          ELSE /\ err' = discoveryFailed(e).err
               /\ allLost' = FALSE
               /\ result' = <<EmptyPacket>>
               /\ lastAct' = "discovery failed"
               /\ pc' = discoveryFailed(e).pc
    /\ UNCHANGED <<Timeout, Version, MsgFlags, wait, requestID, now, reqDeadline>>
    /\ UNCHANGED <<configured, walkVars, restVars>>

\* the retry tests end the loop
AttemptGivesUp ==
    /\ pc = "loop"
    /\ retries > 0
    /\ \/ /\ deadlinePassed(now, finalDeadline)
          /\ err' = "Request timeout"
          /\ errCount' = timeoutCount(retries)
       \/ /\ ~deadlinePassed(now, finalDeadline)
          /\ retriesExhausted(retries, Retries)
          /\ err' = lastError(err)
          /\ UNCHANGED errCount
    /\ pc' = "done"
    /\ result' = <<>>
    /\ lastAct' = "giveup"
    /\ UNCHANGED <<Retries, Timeout, Version, MsgFlags, wait, requestID, now,
                   finalDeadline, reqDeadline, retries, allReqIDs, sent,
                   lastRx, allLost, reqNo>>
    /\ UNCHANGED <<configured, walkVars, restVars>>

\* one pass of the loop from the deadline to the Write
Attempt ==
    /\ pc = "loop"
    /\ retries = 0 \/ (~deadlinePassed(now, finalDeadline)
                       /\ ~retriesExhausted(retries, Retries))
    /\ reqDeadline' = now + (Timeout \div (Retries + 1))
    /\ requestID' = AddUint32(requestID)
    /\ allReqIDs' = Append(allReqIDs, requestID')
    /\ \/ \* buildPacket3 fails
          /\ Version = Version3
          /\ err' = "buildPacket3"
          /\ pc' = "done"
          /\ lastAct' = "attempt"
          /\ allLost' = FALSE
          /\ UNCHANGED <<retries, sent, result>>
       \/ \* marshalMsg fails
          /\ err' = marshalFailed(retries).err
          /\ pc' = marshalFailed(retries).pc
          /\ retries' = marshalFailed(retries).retries
          /\ lastAct' = "marshal failed"
          /\ allLost' = FALSE
          /\ UNCHANGED <<sent, result>>
       \/ \* marshalMsg panics
          /\ err' = recovered("marshal").err
          /\ pc' = recovered("marshal").pc
          /\ lastAct' = "panic"
          /\ allLost' = FALSE
          /\ UNCHANGED <<retries, sent, result>>
       \/ \* Write fails
          /\ err' = "write"
          /\ retries' = retries + 1
          /\ pc' = "loop"
          /\ lastAct' = "attempt"
          /\ allLost' = FALSE
          /\ UNCHANGED <<sent, result>>
       \/ \* written, and the caller does not wait
          /\ ~wait
          /\ err' = "nil"
          /\ sent' = sent + 1
          /\ result' = <<EmptyPacket>>
          /\ pc' = "done"
          /\ lastAct' = "attempt"
          /\ allLost' = FALSE
          /\ UNCHANGED retries
       \/ \* written
          /\ wait
          /\ err' = "nil"
          /\ sent' = sent + 1
          /\ pc' = "receive"
          /\ lastAct' = "attempt"
          /\ UNCHANGED <<retries, result, allLost>>
    /\ errCount' = 0
    /\ UNCHANGED <<Retries, Timeout, Version, MsgFlags, wait, now,
                   finalDeadline, lastRx, reqNo>>
    /\ UNCHANGED <<configured, walkVars, restVars>>

\* the datagrams the network may deliver
Datagrams ==
    LET rids == Range(allReqIDs) \cup {U32(0, 0), AddUint32(requestID)}
        vers == {Version2c, Version3}
    IN  {NoDatagram,
         Datagram(40, 4, 40, Version, UserSecurityModel, TRUE, TRUE, GetResponse, requestID, 1),
         Datagram(40, Sequence, 41, Version, UserSecurityModel, TRUE, TRUE, GetResponse, requestID, 1),
         Datagram(40, Sequence, 40, Version, UserSecurityModel, TRUE, FALSE, GetResponse, requestID, 1),
         Datagram(40, Sequence, 40, Version, UserSecurityModel, TRUE, TRUE, GetRequest, requestID, 1),
         Datagram(40, Sequence, 40, Version, UserSecurityModel, TRUE, TRUE, GetResponse, requestID, 0),
         Datagram(40, Sequence, 40, Version3, 0, FALSE, TRUE, GetResponse, requestID, 1)}
        \cup {Datagram(40, Sequence, 40, v, UserSecurityModel, FALSE, TRUE, GetResponse, requestID, 1) :
                 v \in vers}
        \cup {Datagram(40, Sequence, 40, Version, UserSecurityModel, TRUE, TRUE, GetResponse, r, 1) :
                 r \in rids}

\* receive returns a datagram: one pass of the receive loop
Receive ==
    /\ pc = "receive"
    /\ now < reqDeadline
    /\ \E d \in Datagrams :
          LET todo == receiveLoop(d, MsgFlags, allReqIDs) IN
          /\ lastRx' = [d |-> d, u |-> unmarshal(d, MsgFlags)]
          /\ err' = receiveErr(d, MsgFlags, allReqIDs)
          /\ \/ /\ todo = "panic"
                /\ pc' = recovered("unmarshal").pc
                /\ result' = <<>>
             \/ /\ todo = "continue"
                /\ pc' = "receive"
                /\ result' = <<>>
             \/ /\ todo = "break"
                /\ pc' = "done"
                /\ result' = <<Decoded(d)>>
    /\ allLost' = FALSE
    /\ lastAct' = "receive"
    /\ UNCHANGED <<Retries, Timeout, Version, MsgFlags, wait, requestID, now,
                   finalDeadline, reqDeadline, retries, allReqIDs, errCount,
                   sent, reqNo>>
    /\ UNCHANGED <<configured, walkVars, restVars>>

\* receive fails: the read deadline expired, the read failed otherwise, or
\* the datagram filled the buffer
ReceiveFails ==
    /\ pc = "receive"
    /\ \/ /\ now >= reqDeadline
          /\ UNCHANGED allLost
       \/ /\ now < reqDeadline
          /\ allLost' = FALSE
    /\ err' = "Error reading from UDP"
    /\ retries' = retries + 1
    /\ pc' = "loop"
    /\ lastAct' = "readfail"
    /\ UNCHANGED <<Retries, Timeout, Version, MsgFlags, wait, requestID, now,
                   finalDeadline, reqDeadline, allReqIDs, errCount, result,
                   sent, lastRx, reqNo>>
    /\ UNCHANGED <<configured, walkVars, restVars>>

\* send returns to its caller: the locals of the call are gone
Return ==
    /\ pc = "done"
    /\ pc' = "idle"
    /\ finalDeadline' = 0
    /\ retries' = 0
    /\ allReqIDs' = <<>>
    /\ err' = "nil"
    /\ errCount' = 0
    /\ result' = <<>>
    /\ sent' = 0
    /\ allLost' = TRUE
    /\ lastRx' = [d |-> NoDatagram, u |-> "none"]
    /\ lastAct' = "return"
    /\ UNCHANGED <<Retries, Timeout, Version, MsgFlags, wait, requestID, now,
                   reqDeadline, reqNo>>
    /\ UNCHANGED <<configured, walkVars, restVars>>

\* ------------------------------------------------------------------- walk
\* strings are sequences of characters
Digit(n) == CASE n = 0 -> "0" [] n = 1 -> "1" [] n = 2 -> "2" [] n = 3 -> "3"
              [] n = 4 -> "4" [] n = 5 -> "5" [] n = 6 -> "6" [] n = 7 -> "7"
              [] n = 8 -> "8" [] n = 9 -> "9"

RECURSIVE Itoa(_)
Itoa(n) == IF n < 10 THEN <<Digit(n)>> ELSE Itoa(n \div 10) \o <<Digit(n % 10)>>

\* oidToString: every arc in decimal, each behind a dot
RECURSIVE oidToString(_)
oidToString(arcs) ==
    IF arcs = <<>> THEN <<>>
    ELSE <<".">> \o Itoa(Head(arcs)) \o oidToString(Tail(arcs))

\* strings.HasPrefix
HasPrefix(str, prefix) ==
    Len(prefix) <= Len(str) /\ SubSeq(str, 1, Len(prefix)) = prefix

baseOid == oidToString(<<1, 3, 6, 1, 2, 1>>)

SnmpPDU(name, type) == [Name |-> name, Type |-> type]

\* the range loop of walk without EndOfMibView among the types that end it
walkVariable_noEndOfMibView(v, root, cursor) ==
    IF v.Type = "NoSuchObject" \/ v.Type = "NoSuchInstance" THEN "break"
    ELSE IF ~HasPrefix(v.Name, root) THEN "break"
    ELSE IF v.Name = cursor THEN "OID not increasing"
    ELSE "walkFn"

\* the range loop of walk without the test of the root prefix
walkVariable_noPrefix(v, root, cursor) ==
    IF v.Type = "EndOfMibView" \/ v.Type = "NoSuchObject" \/ v.Type = "NoSuchInstance"
    THEN "break"
    ELSE IF v.Name = cursor THEN "OID not increasing"
    ELSE "walkFn"

\* what the range loop of walk does with one binding
walkVariable(v, root, cursor) ==
    IF v.Type = "EndOfMibView" \/ v.Type = "NoSuchObject" \/ v.Type = "NoSuchInstance"
    THEN "break"
    ELSE IF ~HasPrefix(v.Name, root) THEN "break"
    ELSE IF v.Name = cursor THEN "OID not increasing"
    ELSE "walkFn"

\* the roots a caller may ask for: "", ".", "1.1", ".1.1"
Roots == {<<>>, <<".">>, Tail(oidToString(<<1, 1>>)), oidToString(<<1, 1>>)}

\* the bindings an agent may answer with
AgentNames ==
    {oidToString(a) : a \in {<<1, 1>>, <<1, 1, 1>>, <<1, 10>>, <<1, 2>>}}

AgentVariables ==
    {SnmpPDU(n, "Integer") : n \in AgentNames}
      \cup {SnmpPDU(oidToString(<<1, 1, 1>>), t) :
               t \in {"EndOfMibView", "NoSuchObject", "NoSuchInstance"}}

AgentResponses ==
    UNION {[1..k -> AgentVariables] : k \in 1..MaxBindings}

\* the errors getFn may come back with
RequestErrors ==
    {"Request timeout", "Error reading from UDP", "Unsupported request type"}

\* a walk that leaves its request loop without the error of the request
requestFailed_swallowed(e) == "nil"

\* what walk returns when getFn fails
requestFailed(e) == e

\* the errors walkFn may come back with
CallbackErrors == {"walkFn"}

\* a walk that goes on to its end after walkFn failed
callbackFailed_swallowed(e) == "nil"

\* what walk returns when walkFn fails
callbackFailed(e) == e

\* a cursor that moves to the first binding of the response
lastName_first(Variables) == Variables[1].Name

\* the cursor after a response: the name of its last binding
lastName(Variables) == Variables[Len(Variables)].Name

\* what walkAll returns once walk has returned
walkAll == [results |-> yielded, err |-> walkErr]

\* walk up to its request loop
Walk ==
    /\ wpc = "idle"
    /\ \E root \in Roots :
          LET r1 == IF root = <<>> \/ root = <<".">> THEN baseOid ELSE root
              r2 == IF ~HasPrefix(r1, <<".">>) THEN <<".">> \o r1 ELSE r1
          IN  rootOid' = r2 /\ oid' = r2
    /\ requests' = 0
    /\ wpc' = "request"
    /\ UNCHANGED <<response, responseError, idx, yielded, walkErr, getErr,
                   fnErr, nPrior>>
    /\ UNCHANGED <<sendVars, restVars>>

\* requests++ and getFn(oid), up to the range loop
WalkRequest ==
    /\ wpc = "request"
    /\ requests < MaxWalkRequests
    /\ requests' = requests + 1
    /\ nPrior' = nPrior + Len(response)
    /\ idx' = 0
    /\ \/ \* the request fails
          \E e \in RequestErrors :
          /\ getErr' = e
          /\ walkErr' = requestFailed(e)
          /\ wpc' = "done"
          /\ response' = <<>>
          /\ responseError' = "NoError"
       \/ \E r \in AgentResponses, e \in {"NoError", "NoSuchName"} :
          /\ response' = r
          /\ responseError' = e
          /\ getErr' = "nil"
          /\ walkErr' = "nil"
          /\ wpc' = IF e = "NoSuchName" THEN "done" ELSE "range"
    /\ UNCHANGED <<rootOid, oid, yielded, fnErr>>
    /\ UNCHANGED <<sendVars, restVars>>

\* one pass of the range loop, and the cursor after the last one
WalkVariable ==
    /\ wpc = "range"
    /\ LET v == response[idx + 1]
           todo == walkVariable(v, rootOid, oid)
       IN  /\ idx' = idx + 1
           /\ \/ /\ todo = "break"
                 /\ wpc' = "done"
                 /\ UNCHANGED <<oid, yielded, walkErr, fnErr>>
              \/ /\ todo = "OID not increasing"
                 /\ wpc' = "done"
                 /\ walkErr' = "OID not increasing"
                 /\ UNCHANGED <<oid, yielded, fnErr>>
              \/ \* walkFn returns an error
                 /\ todo = "walkFn"
                 /\ yielded' = Append(yielded, v)
                 /\ \E e \in CallbackErrors :
                       fnErr' = e /\ walkErr' = callbackFailed(e)
                 /\ wpc' = "done"
                 /\ UNCHANGED oid
              \/ /\ todo = "walkFn"
                 /\ yielded' = Append(yielded, v)
                 /\ fnErr' = "nil"
                 /\ IF idx + 1 = Len(response)
                    THEN oid' = lastName(response) /\ wpc' = "request"
                    ELSE wpc' = "range" /\ UNCHANGED oid
                 /\ UNCHANGED walkErr
    /\ UNCHANGED <<rootOid, requests, response, responseError, getErr, nPrior>>
    /\ UNCHANGED <<sendVars, restVars>>

WalkNext ==
    \/ Walk
    \/ WalkRequest
    \/ WalkVariable

WalkSpec == WalkInit /\ [][WalkNext]_vars

\* The walk against an agent that never runs out of answers. What the walk
\* only counts or hands over has no influence on its control flow and is kept
\* bounded here: requests stops counting at MaxWalkRequests, and of the
\* bindings handed to walkFn the last one is kept.
LiveWalkRequest ==
    /\ wpc = "request"
    /\ requests' = IF requests < MaxWalkRequests THEN requests + 1 ELSE requests
    /\ idx' = 0
    /\ \/ \E e \in RequestErrors :
          /\ getErr' = e
          /\ walkErr' = requestFailed(e)
          /\ wpc' = "done"
          /\ response' = <<>>
          /\ responseError' = "NoError"
       \/ \E r \in AgentResponses, e \in {"NoError", "NoSuchName"} :
          /\ response' = r
          /\ responseError' = e
          /\ getErr' = "nil"
          /\ walkErr' = "nil"
          /\ wpc' = IF e = "NoSuchName" THEN "done" ELSE "range"
    /\ UNCHANGED <<rootOid, oid, yielded, fnErr, nPrior>>
    /\ UNCHANGED <<sendVars, restVars>>

LiveWalkVariable ==
    /\ wpc = "range"
    /\ LET v == response[idx + 1]
           todo == walkVariable(v, rootOid, oid)
       IN  /\ idx' = idx + 1
           /\ \/ /\ todo = "break"
                 /\ wpc' = "done"
                 /\ UNCHANGED <<oid, yielded, walkErr, fnErr>>
              \/ /\ todo = "OID not increasing"
                 /\ wpc' = "done"
                 /\ walkErr' = "OID not increasing"
                 /\ UNCHANGED <<oid, yielded, fnErr>>
              \/ /\ todo = "walkFn"
                 /\ yielded' = <<v>>
                 /\ \E e \in CallbackErrors :
                       fnErr' = e /\ walkErr' = callbackFailed(e)
                 /\ wpc' = "done"
                 /\ UNCHANGED oid
              \/ /\ todo = "walkFn"
                 /\ yielded' = <<v>>
                 /\ fnErr' = "nil"
                 /\ IF idx + 1 = Len(response)
                    THEN oid' = lastName(response) /\ wpc' = "request"
                    ELSE wpc' = "range" /\ UNCHANGED oid
                 /\ UNCHANGED walkErr
    /\ UNCHANGED <<rootOid, requests, response, responseError, getErr, nPrior>>
    /\ UNCHANGED <<sendVars, restVars>>

WalkLiveNext ==
    \/ Walk
    \/ LiveWalkRequest
    \/ LiveWalkVariable

\* walk is one goroutine: whichever of its steps is enabled is taken
WalkLiveSpec ==
    /\ WalkInit
    /\ [][WalkLiveNext]_vars
    /\ WF_vars(Walk)
    /\ WF_vars(LiveWalkRequest)
    /\ WF_vars(LiveWalkVariable)

\* ------------------------------------------------------------ wire codec
\* bytes are numbers in 0..255, packets are sequences of bytes

\* the BER types of a binding
Integer == 2
OctetString == 4
Null == 5
ObjectIdentifier == 6
IPAddress == 64
Counter32 == 65
Gauge32 == 66
TimeTicks == 67
Uinteger32 == 71
NoSuchObject == 128
NoSuchInstance == 129
EndOfMibView == 130

\* body of v, with v worked out once
With(v, body(_)) == CHOOSE r \in {body(x) : x \in {v}} : TRUE

\* packet[n:]
Drop(bytes, n) == SubSeq(bytes, n + 1, Len(bytes))

RECURSIVE BigEndian(_)
BigEndian(bytes) ==
    IF bytes = <<>> THEN 0
    ELSE BigEndian(SubSeq(bytes, 1, Len(bytes) - 1)) * 256 + bytes[Len(bytes)]

\* one byte up to 127, else the number of length bytes with the high bit set
\* and the length behind it
marshalLength(length) ==
    With(length, LAMBDA n :
        IF n <= 127 THEN <<n>>
        ELSE IF n <= 255 THEN <<129, n>>
        ELSE <<130, n \div 256, n % 256>>)

\* the length of a field with its header, and the size of the header
parseLength(field) ==
    With(field, LAMBDA bytes :
    IF bytes[2] <= 127
    THEN [length |-> bytes[2] + 2, cursor |-> 2]
    ELSE LET numOctets == bytes[2] % 128
         IN  [length |-> BigEndian(SubSeq(bytes, 3, 2 + numOctets)) + 2 + numOctets,
              cursor |-> 2 + numOctets])

\* two's complement in the fewest bytes, for what fits 16 bits
marshalInt16(value) ==
    IF value >= -128 /\ value <= 127 THEN <<value % 256>>
    ELSE <<(value % 65536) \div 256, value % 256>>

\* two's complement of up to three bytes
parseInt(bytes) ==
    IF bytes = <<>> THEN 0
    ELSE IF bytes[1] >= 128
    THEN BigEndian(bytes) - (IF Len(bytes) = 1 THEN 256
                             ELSE IF Len(bytes) = 2 THEN 65536 ELSE 16777216)
    ELSE BigEndian(bytes)

\* big-endian in the fewest bytes
marshalUint32(value) ==
    IF value < 256 THEN <<value>>
    ELSE IF value < 65536 THEN <<value \div 256, value % 256>>
    ELSE <<value \div 65536, (value \div 256) % 256, value % 256>>

DigitValue(c) == CHOOSE n \in 0..9 : Digit(n) = c

\* the arcs of a dotted string; acc is the number being read, if one is
RECURSIVE ParseArcs(_, _, _)
ParseArcs(str, acc, reading) ==
    IF str = <<>> THEN (IF reading THEN <<acc>> ELSE <<>>)
    ELSE IF Head(str) = "."
    THEN (IF reading THEN <<acc>> ELSE <<>>) \o ParseArcs(Tail(str), 0, FALSE)
    ELSE ParseArcs(Tail(str), acc * 10 + DigitValue(Head(str)), TRUE)

\* an arc in groups of seven bits, every group but the last with the high bit
RECURSIVE Base128High(_)
Base128High(n) ==
    IF n < 128 THEN <<128 + n>>
    ELSE Base128High(n \div 128) \o <<128 + (n % 128)>>

Base128(n) ==
    IF n < 128 THEN <<n>> ELSE Base128High(n \div 128) \o <<n % 128>>

RECURSIVE Base128All(_)
Base128All(arcs) ==
    IF arcs = <<>> THEN <<>> ELSE Base128(Head(arcs)) \o Base128All(Tail(arcs))

\* the first two arcs in one byte, every later arc in base 128
marshalOID(oidStr) ==
    LET arcs == ParseArcs(oidStr, 0, FALSE)
    IN  <<40 * arcs[1] + arcs[2]>> \o Base128All(Drop(arcs, 2))

\* the arcs behind the first byte; acc is the arc being read
RECURSIVE ParseBase128(_, _)
ParseBase128(bytes, acc) ==
    IF bytes = <<>> THEN <<>>
    ELSE IF Head(bytes) >= 128
    THEN ParseBase128(Tail(bytes), acc * 128 + (Head(bytes) - 128))
    ELSE <<acc * 128 + Head(bytes)>> \o ParseBase128(Tail(bytes), 0)

parseObjectIdentifier(bytes) ==
    <<bytes[1] \div 40, bytes[1] % 40>> \o ParseBase128(Tail(bytes), 0)

\* a Go value: its dynamic type and, by type, a number, bytes or a string
Val(go, n, b, str) == [go |-> go, n |-> n, b |-> b, s |-> str]

NilValue == Val("nil", 0, <<>>, <<>>)

VarBind(name, type, value) == [Name |-> name, Type |-> type, Value |-> value]

\* []byte(s), for the characters of a dotted string
StringBytes(str) ==
    [i \in 1..Len(str) |-> IF str[i] = "." THEN 46 ELSE 48 + DigitValue(str[i])]

\* a varbind on the wire: sequence, name, value, each length in one byte
varbindBytes(name, type, content) ==
    <<Sequence, (Len(name) + Len(content) + 4) % 256>>
      \o <<ObjectIdentifier, Len(name) % 256>> \o name
      \o <<type, Len(content) % 256>> \o content

marshalVarbind(pdu) ==
    LET name == marshalOID(pdu.Name)
        value == pdu.Value
        ok(content) == [bytes |-> varbindBytes(name, pdu.Type, content), err |-> "nil"]
        fail(e) == [bytes |-> <<>>, err |-> e]
    IN  CASE pdu.Type = Null -> ok(<<>>)
          [] pdu.Type = Integer ->
               IF value.go = "byte" THEN fail("panic")
               ELSE IF value.go = "int" THEN ok(marshalInt16(value.n))
               ELSE fail("Unable to marshal PDU Integer; not byte or int.")
          [] pdu.Type \in {Counter32, Gauge32, TimeTicks, Uinteger32} ->
               IF value.go = "uint32" THEN ok(marshalUint32(value.n))
               ELSE fail("Unable to marshal pdu.Type; unknown pdu.Value")
          [] pdu.Type = OctetString ->
               IF value.go = "bytes" THEN ok(value.b)
               ELSE IF value.go = "string" THEN ok(StringBytes(value.s))
               ELSE fail("Unable to marshal PDU OctetString; not []byte or String.")
          [] pdu.Type = ObjectIdentifier ->
               IF value.go = "string" THEN ok(marshalOID(value.s))
               ELSE fail("panic")
          [] pdu.Type = IPAddress ->
               IF value.go = "bytes" THEN ok(value.b)
               ELSE IF value.go = "string" THEN ok(ParseArcs(value.s, 0, FALSE))
               ELSE fail("Unable to marshal PDU IPAddress; not []byte or String.")
          [] OTHER -> fail("Unable to marshal PDU: unknown BER type")

\* the loop of marshalVBL
RECURSIVE marshalVarbinds(_)
marshalVarbinds(pdus) ==
    IF pdus = <<>> THEN [bytes |-> <<>>, err |-> "nil"]
    ELSE With(marshalVarbind(Head(pdus)), LAMBDA vb :
             IF vb.err # "nil" THEN vb
             ELSE With(marshalVarbinds(Tail(pdus)), LAMBDA rest :
                      IF rest.err # "nil" THEN rest
                      ELSE [bytes |-> vb.bytes \o rest.bytes, err |-> "nil"]))

\* marshalVBL writing the bindings last to first
RECURSIVE marshalVarbinds_reversed(_)
marshalVarbinds_reversed(pdus) ==
    IF pdus = <<>> THEN [bytes |-> <<>>, err |-> "nil"]
    ELSE With(marshalVarbind(Head(pdus)), LAMBDA vb :
             IF vb.err # "nil" THEN vb
             ELSE With(marshalVarbinds_reversed(Tail(pdus)), LAMBDA rest :
                      IF rest.err # "nil" THEN rest
                      ELSE [bytes |-> rest.bytes \o vb.bytes, err |-> "nil"]))

marshalVBL_reversed(pdus) ==
    With(marshalVarbinds_reversed(pdus), LAMBDA vbl :
        IF vbl.err # "nil" THEN vbl
        ELSE [bytes |-> <<Sequence>> \o marshalLength(Len(vbl.bytes)) \o vbl.bytes,
              err |-> "nil"])

marshalVBL(pdus) ==
    With(marshalVarbinds(pdus), LAMBDA vbl :
        IF vbl.err # "nil" THEN vbl
        ELSE [bytes |-> <<Sequence>> \o marshalLength(Len(vbl.bytes)) \o vbl.bytes,
              err |-> "nil"])

\* binary.Write(buf, binary.BigEndian, requestid)
Uint32Bytes(id) == <<id[1] \div 256, id[1] % 256, id[2] \div 256, id[2] % 256>>

\* the PDU of a get, getnext or response: request id, error, error index,
\* varbind list
marshalPDU(pdus, pdutype, requestid) ==
    With(marshalVBL(pdus), LAMBDA vbl :
        IF vbl.err # "nil" THEN vbl
        ELSE With(<<2, 4>> \o Uint32Bytes(requestid) \o <<2, 1, 0>> \o <<2, 1, 0>>
                    \o vbl.bytes,
                  LAMBDA buf :
                     [bytes |-> <<pdutype>> \o marshalLength(Len(buf)) \o buf,
                      err |-> "nil"]))

\* a message of version 1 or 2c
marshalMsg(version, community, pdus, pdutype, requestid) ==
    With(marshalPDU(pdus, pdutype, requestid), LAMBDA pdu :
        IF pdu.err # "nil" THEN pdu
        ELSE With(<<2, 1, version>> \o <<4, Len(community) % 256>> \o community
                    \o pdu.bytes,
                  LAMBDA buf :
                     [bytes |-> <<Sequence>> \o marshalLength(Len(buf)) \o buf,
                      err |-> "nil"]))

\* a field of the header: its tag, its content and its size with the header
parseRawField(data) ==
    With(data, LAMBDA bytes :
    With(parseLength(bytes), LAMBDA field :
        [tag |-> bytes[1],
         content |-> SubSeq(bytes, field.cursor + 1, field.length),
         count |-> field.length,
         err |-> IF bytes[1] \in {Integer, OctetString, ObjectIdentifier}
                 THEN "nil" ELSE "Unknown field type"]))

\* uint32(requestid) of an integer field of up to four bytes
Uint32Of(content) ==
    LET pad == IF content # <<>> /\ content[1] >= 128 THEN 255 ELSE 0
        b == [i \in 1..(4 - Len(content)) |-> pad] \o content
    IN  U32(b[1] * 256 + b[2], b[3] * 256 + b[4])

\* the type and the value of a binding
decodeValue(data) ==
    With(data, LAMBDA bytes :
    LET field == parseLength(bytes)
        content == SubSeq(bytes, field.cursor + 1, field.length)
        type == bytes[1]
        v(value) == [Type |-> type, Value |-> value, err |-> "nil"]
    IN  CASE type = Integer -> v(Val("int", parseInt(content), <<>>, <<>>))
          [] type \in {Counter32, Gauge32, TimeTicks, Uinteger32} ->
               v(Val("uint32", BigEndian(content), <<>>, <<>>))
          [] type = OctetString -> v(Val("bytes", 0, content, <<>>))
          [] type = IPAddress -> v(Val("bytes", 0, content, <<>>))
          [] type = ObjectIdentifier ->
               v(Val("string", 0, <<>>, oidToString(parseObjectIdentifier(content))))
          [] type \in {Null, NoSuchObject, NoSuchInstance, EndOfMibView} ->
               v(NilValue)
          [] OTHER -> [Type |-> type, Value |-> NilValue, err |-> "Unknown type"])

\* a length check that lets a packet longer than declared through
lengthMismatch_short(n, length) == n < length

\* the three checks of the bytes at hand against the length declared
lengthMismatch(n, length) == n # length

\* the loop of unmarshalVBL
RECURSIVE unmarshalVarbinds(_, _, _, _)
unmarshalVarbinds(packet, at, vblLength, sofar) ==
    With(at, LAMBDA cursor :
    With(sofar, LAMBDA Variables :
    IF cursor >= vblLength THEN [Variables |-> Variables, err |-> "nil"]
    ELSE IF packet[cursor + 1] # Sequence
    THEN [Variables |-> Variables, err |-> "Expected a sequence when unmarshalling a VB"]
    ELSE LET c1 == cursor + parseLength(Drop(packet, cursor)).cursor
             rawOid == parseRawField(Drop(packet, c1))
             c2 == c1 + rawOid.count
             v == decodeValue(Drop(packet, c2))
             c3 == c2 + parseLength(Drop(packet, c2)).length
         IN  IF rawOid.err # "nil"
             THEN [Variables |-> Variables, err |-> "Error parsing OID Value"]
             ELSE IF rawOid.tag # ObjectIdentifier
             THEN [Variables |-> Variables, err |-> "unable to type assert rawOid"]
             ELSE IF v.err # "nil"
             THEN [Variables |-> Variables, err |-> "Error decoding value"]
             ELSE unmarshalVarbinds(packet, c3, vblLength,
                    Append(Variables,
                           VarBind(oidToString(parseObjectIdentifier(rawOid.content)),
                                   v.Type, v.Value)))))

unmarshalVBL(received) ==
    With(received, LAMBDA packet :
    IF packet = <<>> THEN [Variables |-> <<>>, err |-> "panic"]
    ELSE IF packet[1] # Sequence
    THEN [Variables |-> <<>>, err |-> "Expected a sequence when unmarshalling a VBL"]
    ELSE LET vbl == parseLength(packet)
         IN  IF lengthMismatch(Len(packet), vbl.length)
             THEN [Variables |-> <<>>, err |-> "Error verifying: packet length"]
             ELSE IF vbl.length = 2 /\ packet[2] = 0
             THEN [Variables |-> <<>>, err |-> "nil"]
             ELSE unmarshalVarbinds(packet, vbl.cursor, vbl.length, <<>>))

\* what unmarshalResponse and unmarshal give back
Response(requestid, variables, e) ==
    [RequestID |-> requestid, Variables |-> variables, err |-> e]

unmarshalResponse(received) ==
    With(received, LAMBDA packet :
    LET pdu == parseLength(packet)
        rawRequestID == parseRawField(Drop(packet, pdu.cursor))
        c1 == pdu.cursor + rawRequestID.count
        rawError == parseRawField(Drop(packet, c1))
        c2 == c1 + rawError.count
        rawErrorIndex == parseRawField(Drop(packet, c2))
        c3 == c2 + rawErrorIndex.count
        requestid == IF rawRequestID.tag = Integer
                     THEN Uint32Of(rawRequestID.content) ELSE U32(0, 0)
        vbl == unmarshalVBL(Drop(packet, c3))
    IN  IF lengthMismatch(Len(packet), pdu.length)
        THEN Response(U32(0, 0), <<>>, "Error verifying Response sanity")
        ELSE IF rawRequestID.err # "nil"
        THEN Response(U32(0, 0), <<>>, "Error parsing SNMP packet request ID")
        ELSE IF rawError.err # "nil"
        THEN Response(requestid, <<>>, "Error parsing SNMP packet error")
        ELSE IF rawErrorIndex.err # "nil"
        THEN Response(requestid, <<>>, "Error parsing SNMP packet error index")
        ELSE Response(requestid, vbl.Variables, vbl.err))

\* unmarshal of the bytes of a message of version 1 or 2c; the error is the
\* innermost one
unmarshalPacket(received) ==
    With(received, LAMBDA packet :
    IF packet = <<>> THEN Response(U32(0, 0), <<>>, "panic")
    ELSE IF packet[1] # Sequence
    THEN Response(U32(0, 0), <<>>, "Invalid packet header")
    ELSE LET msg == parseLength(packet)
             rawVersion == parseRawField(Drop(packet, msg.cursor))
             c1 == msg.cursor + rawVersion.count
             rawCommunity == parseRawField(Drop(packet, c1))
             c2 == c1 + rawCommunity.count
             requestType == packet[c2 + 1]
         IN  IF lengthMismatch(Len(packet), msg.length)
             THEN Response(U32(0, 0), <<>>, "Error verifying packet sanity")
             ELSE IF rawVersion.err # "nil"
             THEN Response(U32(0, 0), <<>>, "Error parsing SNMP packet version")
             ELSE IF rawCommunity.err # "nil"
             THEN Response(U32(0, 0), <<>>, "Error parsing community string")
             ELSE IF requestType \in {GetResponse, GetNextRequest, GetBulkRequest,
                                      Report, SNMPv2Trap}
             THEN unmarshalResponse(Drop(packet, c2))
             ELSE Response(U32(0, 0), <<>>, "Unknown PDUType"))

\* "public"
Community == <<112, 117, 98, 108, 105, 99>>

CodecNames == {oidToString(a) : a \in {<<1, 3, 6, 1>>, <<1, 3, 200>>}}

\* the values a binding may carry, by type
CodecValues ==
    {<<Null, NilValue>>}
      \cup {<<Integer, Val("int", n, <<>>, <<>>)>> : n \in {0, 127, 128, 300, -1, -129}}
      \cup {<<Integer, Val("byte", 5, <<>>, <<>>)>>}
      \cup {<<t, Val("uint32", n, <<>>, <<>>)>> :
               t \in {Counter32, Gauge32, TimeTicks, Uinteger32}, n \in {0, 255, 70000}}
      \cup {<<OctetString, Val("bytes", 0, b, <<>>)>> : b \in {<<>>, <<104, 105>>}}
      \cup {<<ObjectIdentifier, Val("string", 0, <<>>, n)>> : n \in CodecNames}
      \cup {<<IPAddress, Val("bytes", 0, <<10, 0, 0, 1>>, <<>>)>>}
      \cup {<<t, NilValue>> : t \in {NoSuchObject, NoSuchInstance, EndOfMibView}}

\* the bindings of a request, all of them distinct in a list
RequestVarbinds ==
    {VarBind(oidToString(a), Null, NilValue) :
        a \in {<<1, 3, 6, 1>>, <<1, 3, 200>>, <<1, 3, 6, 1, 2>>, <<1, 3, 6, 1, 3>>}}

LongVarbind(a) ==
    VarBind(oidToString(a), OctetString,
            Val("bytes", 0, [i \in 1..MaxOctets |-> 7], <<>>))

\* what is marshalled: one binding of any type, or several of a request, or
\* three so long that the lengths around them take the long form
CodecInputs ==
    {<<VarBind(n, tv[1], tv[2])>> : n \in CodecNames, tv \in CodecValues}
      \cup {<<>>}
      \cup {l \in UNION {[1..k -> RequestVarbinds] : k \in 2..MaxVarbinds} :
               \A i, j \in 1..Len(l) : i # j => l[i] # l[j]}
      \cup {<<LongVarbind(<<1, 3, 1>>), LongVarbind(<<1, 3, 2>>),
              LongVarbind(<<1, 3, 3>>)>>}

\* where the PDU and the varbind list start in a message of version 1 or 2c
PDUStart(packet) ==
    LET c0 == parseLength(packet).cursor
        c1 == c0 + parseRawField(Drop(packet, c0)).count
    IN  c1 + parseRawField(Drop(packet, c1)).count

VBLStart(packet) ==
    LET p == PDUStart(packet)
        c0 == p + parseLength(Drop(packet, p)).cursor
        c1 == c0 + parseRawField(Drop(packet, c0)).count
        c2 == c1 + parseRawField(Drop(packet, c1)).count
    IN  c2 + parseRawField(Drop(packet, c2)).count

\* the last byte of the length of the field that starts behind `start`
LengthByte(packet, start) == start + parseLength(Drop(packet, start)).cursor

Tampers ==
    {<<"none", 0>>, <<"longer", 0>>, <<"shorter", 0>>}
      \cup ({"outer", "pdu", "vbl"} \X {1, -1})

\* the bytes as they arrive
Tampered(packet, t) ==
    LET at == CASE t[1] = "outer" -> LengthByte(packet, 0)
                [] t[1] = "pdu" -> LengthByte(packet, PDUStart(packet))
                [] t[1] = "vbl" -> LengthByte(packet, VBLStart(packet))
                [] OTHER -> 0
    IN  CASE t[1] = "none" -> packet
          [] t[1] = "longer" -> Append(packet, 0)
          [] t[1] = "shorter" -> SubSeq(packet, 1, Len(packet) - 1)
          [] OTHER -> [packet EXCEPT ![at] = @ + t[2]]

\* a changed length stays a length of the same form
TamperFits(packet, t) ==
    IF t[1] \in {"none", "longer", "shorter"} THEN TRUE
    ELSE LET new == Tampered(packet, t)
             start == CASE t[1] = "outer" -> 0
                        [] t[1] = "pdu" -> PDUStart(packet)
                        [] OTHER -> VBLStart(packet)
             at == LengthByte(packet, start)
         IN  /\ new[at] >= 0
             /\ new[at] <= (IF at = start + 2 THEN 127 ELSE 255)

\* a sender marshals a message
CodecMarshal ==
    /\ codecPc = "input"
    /\ LET msg == marshalMsg(Version2c, txCommunity, txPdus, txType, txID)
       IN  /\ txErr' = msg.err
           /\ wire' = msg.bytes
           /\ codecPc' = IF msg.err = "nil" THEN "marshalled" ELSE "failed"
    /\ UNCHANGED <<txPdus, txType, txID, txCommunity, tamper, rxPacket>>
    /\ UNCHANGED <<sendVars, walkVars, sessVars, expVars, v3Vars>>

\* the bytes travel
CodecDeliver ==
    /\ codecPc = "marshalled"
    /\ \E t \in Tampers :
          /\ TamperFits(wire, t)
          /\ tamper' = t[1]
          /\ wire' = Tampered(wire, t)
    /\ codecPc' = "received"
    /\ UNCHANGED <<txPdus, txType, txID, txCommunity, txErr, rxPacket>>
    /\ UNCHANGED <<sendVars, walkVars, sessVars, expVars, v3Vars>>

\* the receiver unmarshals what receive copied out of rxBuf
CodecUnmarshal ==
    /\ codecPc = "received"
    /\ rxPacket' = unmarshalPacket(wire)
    /\ codecPc' = "decoded"
    /\ UNCHANGED <<txPdus, txType, txID, txCommunity, txErr, wire, tamper>>
    /\ UNCHANGED <<sendVars, walkVars, sessVars, expVars, v3Vars>>

CodecInit ==
    /\ FixedSession
    /\ WalkIdle
    /\ codecPc = "input"
    /\ txPdus \in CodecInputs
    /\ txType \in {GetRequest, GetNextRequest, GetResponse}
    /\ txID \in {U32(0, 5), U32(Half - 1, Half - 2)}
    /\ txCommunity = Community
    /\ txErr = "nil"
    /\ wire = <<>>
    /\ tamper = "none"
    /\ rxPacket = Response(U32(0, 0), <<>>, "nil")
    /\ SessionsIdle
    /\ ExporterIdle
    /\ V3Idle

CodecNext ==
    \/ CodecMarshal
    \/ CodecDeliver
    \/ CodecUnmarshal

CodecSpec == CodecInit /\ [][CodecNext]_vars

\* marshalling alone, of octet strings and communities whose lengths lie on
\* both sides of 127 and of 255
WideLengths == {0, 1, 50, 118, 119, 120, 121, 122, 127, 128, 129, 200, 250}

WideVarbind(name, n) ==
    VarBind(name, OctetString, Val("bytes", 0, [i \in 1..n |-> 7], <<>>))

Communities ==
    {Community} \cup {[i \in 1..n |-> 112] : n \in {127, 128, 200}}

MarshalInit ==
    /\ FixedSession
    /\ WalkIdle
    /\ codecPc = "input"
    /\ txPdus \in {<<WideVarbind(name, n)>> : name \in CodecNames, n \in WideLengths}
    /\ txType = GetResponse
    /\ txID = U32(0, 5)
    /\ txCommunity \in Communities
    /\ txErr = "nil"
    /\ wire = <<>>
    /\ tamper = "none"
    /\ rxPacket = Response(U32(0, 0), <<>>, "nil")
    /\ SessionsIdle
    /\ ExporterIdle
    /\ V3Idle

MarshalSpec == MarshalInit /\ [][CodecMarshal]_vars

\* ------------------------------------------------------------ version 3

\* SnmpV3MsgFlags
NoAuthNoPriv == 0
AuthPriv == 3

\* MsgFlags&AuthNoPriv > 0
HasAuth(flags) == flags % 2 = 1

\* MsgFlags&AuthPriv > AuthNoPriv
HasPriv(flags) == flags % 4 >= 2

rxBufSize == 65535

BlockSize == 8

\* big-endian in the fewest bytes
marshalUvarInt(x) ==
    IF x < 256 THEN <<x>>
    ELSE IF x < 65536 THEN <<x \div 256, x % 256>>
    ELSE <<x \div 65536, (x \div 256) % 256, x % 256>>

\* message id, maximum message size, flags and security model
marshalSnmpV3Header(packet, msgid) ==
    <<Integer, 4>> \o Uint32Bytes(msgid)
      \o <<Integer, Len(marshalUvarInt(rxBufSize))>> \o marshalUvarInt(rxBufSize)
      \o <<OctetString, 1, packet.MsgFlags>>
      \o <<Integer, 1, packet.SecurityModel>>

\* the security parameters with the offset counted as if the sequence that
\* wraps them always had a length of one byte
marshalSnmpV3UsmSecurityParameters_shortHeader(packet) ==
    With(<<OctetString, Len(packet.AuthoritativeEngineID) % 256>>
           \o packet.AuthoritativeEngineID
           \o <<Integer, Len(marshalUvarInt(packet.AuthoritativeEngineBoots))>>
           \o marshalUvarInt(packet.AuthoritativeEngineBoots)
           \o <<Integer, Len(marshalUvarInt(packet.AuthoritativeEngineTime))>>
           \o marshalUvarInt(packet.AuthoritativeEngineTime)
           \o <<OctetString, Len(packet.UserName) % 256>> \o packet.UserName,
         LAMBDA head :
    With(head
           \o (IF HasAuth(packet.MsgFlags)
               THEN <<OctetString, 12>> \o [i \in 1..12 |-> 0]
               ELSE <<OctetString, 0>>)
           \o (IF HasPriv(packet.MsgFlags)
               THEN <<OctetString>> \o marshalLength(Len(packet.PrivacyParameters))
                      \o packet.PrivacyParameters
               ELSE <<OctetString, 0>>),
         LAMBDA buf :
            [bytes |-> <<Sequence>> \o marshalLength(Len(buf)) \o buf,
             authParamStart |-> Len(head) + 2 + 2]))

\* the security parameters of the user security model in a sequence, and the
\* offset in it of the authentication parameters
marshalSnmpV3UsmSecurityParameters(packet) ==
    With(<<OctetString, Len(packet.AuthoritativeEngineID) % 256>>
           \o packet.AuthoritativeEngineID
           \o <<Integer, Len(marshalUvarInt(packet.AuthoritativeEngineBoots))>>
           \o marshalUvarInt(packet.AuthoritativeEngineBoots)
           \o <<Integer, Len(marshalUvarInt(packet.AuthoritativeEngineTime))>>
           \o marshalUvarInt(packet.AuthoritativeEngineTime)
           \o <<OctetString, Len(packet.UserName) % 256>> \o packet.UserName,
         LAMBDA head :
    With(head
           \o (IF HasAuth(packet.MsgFlags)
               THEN <<OctetString, 12>> \o [i \in 1..12 |-> 0]
               ELSE <<OctetString, 0>>)
           \o (IF HasPriv(packet.MsgFlags)
               THEN <<OctetString>> \o marshalLength(Len(packet.PrivacyParameters))
                      \o packet.PrivacyParameters
               ELSE <<OctetString, 0>>),
         LAMBDA buf :
         With(<<Sequence>> \o marshalLength(Len(buf)), LAMBDA tmpseq :
            [bytes |-> tmpseq \o buf,
             authParamStart |-> Len(head) + 2 + Len(tmpseq)])))

\* context engine id, context name and PDU, in plain text
prepareSnmpV3ScopedPDU(packet, pdus, requestid) ==
    With(marshalPDU(pdus, packet.PDUType, requestid), LAMBDA data :
        IF data.err # "nil" THEN data
        ELSE [bytes |-> <<OctetString>> \o marshalLength(Len(packet.ContextEngineID))
                          \o packet.ContextEngineID
                          \o <<OctetString>> \o marshalLength(Len(packet.ContextName))
                          \o packet.ContextName
                          \o data.bytes,
              err |-> "nil"])

\* a xor b of two bytes
RECURSIVE Xor(_, _)
Xor(a, b) ==
    IF a = 0 THEN b
    ELSE IF b = 0 THEN a
    ELSE 2 * Xor(a \div 2, b \div 2) + (IF a % 2 = b % 2 THEN 0 ELSE 1)

\* the localized key of a passphrase under an engine id, sixteen bytes
genlocalkey(engineID) ==
    [i \in 1..16 |-> (37 * i + 11 * Len(engineID) + 5) % 256]

\* cipher block chaining: every block is enciphered with the block before
RECURSIVE CBCEncrypt(_, _, _)
CBCEncrypt(key, iv, src) ==
    IF src = <<>> THEN <<>>
    ELSE With([j \in 1..BlockSize |-> (Xor(src[j], iv[j]) + key[j]) % 256],
              LAMBDA block : block \o CBCEncrypt(key, block, Drop(src, BlockSize)))

RECURSIVE CBCDecrypt(_, _, _)
CBCDecrypt(key, iv, src) ==
    IF src = <<>> THEN <<>>
    ELSE [j \in 1..BlockSize |-> Xor((src[j] - key[j]) % 256, iv[j])]
           \o CBCDecrypt(key, SubSeq(src, 1, BlockSize), Drop(src, BlockSize))

\* cipher feedback as a stream: the text keeps its length
XORKeyStream(key, iv, src) ==
    [i \in 1..Len(src) |->
        Xor(src[i], (key[((i - 1) % 16) + 1] + iv[((i - 1) % 16) + 1] + i) % 256)]

\* the initialization vector of DES: the second half of the key xor the salt
DesIV(privkey, PrivacyParameters) ==
    [i \in 1..8 |-> Xor(privkey[8 + i], PrivacyParameters[i])]

\* the initialization vector of AES: boots, time and the salt
AesIV(packet) ==
    With(Uint32Bytes(U32(0, packet.AuthoritativeEngineBoots))
           \o Uint32Bytes(U32(0, packet.AuthoritativeEngineTime)),
         LAMBDA counters :
            [i \in 1..16 |->
                IF i <= 8 THEN counters[i]
                ELSE IF i - 8 <= Len(packet.PrivacyParameters)
                THEN packet.PrivacyParameters[i - 8] ELSE 0])

\* a scoped PDU that goes to the cipher without padding
desPad_none(n) == 0

\* des.BlockSize - len(scopedPdu) % des.BlockSize
desPad(n) == BlockSize - (n % BlockSize)

\* the scoped PDU in its sequence, enciphered into an octet string when the
\* flags ask for privacy
marshalSnmpV3ScopedPDU(packet, pdus, requestid) ==
    With(prepareSnmpV3ScopedPDU(packet, pdus, requestid), LAMBDA plain :
    IF plain.err # "nil" THEN plain
    ELSE With(<<Sequence>> \o marshalLength(Len(plain.bytes)) \o plain.bytes,
              LAMBDA scopedPdu :
         IF HasPriv(packet.MsgFlags) /\ packet.SecurityModel = UserSecurityModel
         THEN With(genlocalkey(packet.AuthoritativeEngineID), LAMBDA privkey :
              IF packet.PrivacyProtocol = "AES"
              THEN With(XORKeyStream(privkey, AesIV(packet), scopedPdu),
                        LAMBDA ciphertext :
                           [bytes |-> <<OctetString>>
                                        \o marshalLength(Len(ciphertext))
                                        \o ciphertext,
                            err |-> "nil"])
              ELSE IF Len(packet.PrivacyParameters) < 8
              THEN [bytes |-> <<>>, err |-> "panic"]
              ELSE IF (Len(scopedPdu) + desPad(Len(scopedPdu))) % BlockSize # 0
              THEN \* CryptBlocks: input not full blocks
                   [bytes |-> <<>>, err |-> "panic"]
              ELSE With(CBCEncrypt(privkey,
                                   DesIV(privkey, packet.PrivacyParameters),
                                   scopedPdu
                                     \o [i \in 1..desPad(Len(scopedPdu)) |-> 0]),
                        LAMBDA ciphertext :
                           [bytes |-> <<OctetString>>
                                        \o marshalLength(Len(ciphertext))
                                        \o ciphertext,
                            err |-> "nil"]))
         ELSE [bytes |-> scopedPdu, err |-> "nil"]))

\* the version 3 branch of marshalMsg around a scoped PDU, before the
\* message is signed
marshalMsgAround(packet, msgid, scopedPdu) ==
    With(marshalSnmpV3Header(packet, msgid), LAMBDA header :
    With(IF packet.SecurityModel = UserSecurityModel
         THEN marshalSnmpV3UsmSecurityParameters(packet)
         ELSE [bytes |-> <<>>, authParamStart |-> 0],
         LAMBDA usm :
    With(<<2, 1, Version3>>
           \o <<Sequence, Len(header) % 256>> \o header
           \o <<OctetString>> \o marshalLength(Len(usm.bytes)),
         LAMBDA front :
    With(front \o usm.bytes \o scopedPdu, LAMBDA buf :
    With(<<Sequence>> \o marshalLength(Len(buf)), LAMBDA msg :
        [bytes |-> msg \o buf,
         authParamStart |-> usm.authParamStart + Len(front) + Len(msg),
         err |-> "nil"])))))

\* marshalMsg of a message of version 3, before it is signed
marshalMsgV3(packet, pdus, msgid, requestid) ==
    With(marshalSnmpV3ScopedPDU(packet, pdus, requestid), LAMBDA scoped :
        IF scoped.err # "nil"
        THEN [bytes |-> <<>>, authParamStart |-> 0, err |-> scoped.err]
        ELSE marshalMsgAround(packet, msgid, scoped.bytes))

\* the sum of every twelfth byte from the i-th on
RECURSIVE SumEvery(_, _)
SumEvery(msg, i) ==
    IF i > Len(msg) THEN 0 ELSE msg[i] + SumEvery(msg, i + 12)

\* a keyed digest cut to twelve bytes; every byte of the message counts in
\* one byte of it
Digest(key, msg) ==
    [j \in 1..12 |-> (key[j] + SumEvery(msg, j)) % 256]

\* msg with digest at the offset at
Splice(msg, at, digest) ==
    [i \in 1..Len(msg) |->
        IF i > at /\ i <= at + Len(digest) THEN digest[i - at] ELSE msg[i]]

\* the message with its digest in the authentication parameters
authenticate(packet, msg, authParamStart) ==
    IF packet.Version # Version3 \/ ~HasAuth(packet.MsgFlags) THEN msg
    ELSE With(msg, LAMBDA bytes :
            Splice(bytes, authParamStart,
                   Digest(genlocalkey(packet.AuthoritativeEngineID), bytes)))

\* the digest of the message, its authentication parameters blanked, is the
\* one it came with
isAuthentic(msg, authParams, engineID) ==
    Digest(genlocalkey(engineID), msg) = authParams

\* the lengths of engine id, user name, salt and value a message is built of
EngineIDLengths == {0, 5, 130}

UserNameLengths == {0, 4, 120}

PrivacyLengths == {0, 8, 130}

ValueLengths == (0..7) \cup {100, 200}

V3Packet(flags, protocol, engine, user, salt) ==
    [Version |-> Version3,
     MsgFlags |-> flags,
     SecurityModel |-> UserSecurityModel,
     AuthoritativeEngineID |-> [i \in 1..engine |-> 128],
     AuthoritativeEngineBoots |-> 1,
     AuthoritativeEngineTime |-> 300,
     UserName |-> [i \in 1..user |-> 117],
     PrivacyProtocol |-> protocol,
     PrivacyParameters |-> [i \in 1..salt |-> 16 + (i % 8)],
     ContextEngineID |-> <<128, 1>>,
     ContextName |-> <<>>,
     PDUType |-> GetResponse]

V3Packets ==
    {V3Packet(flags, "NoPriv", engine, user, 0) :
        flags \in {NoAuthNoPriv, AuthNoPriv},
        engine \in EngineIDLengths, user \in UserNameLengths}
      \cup {V3Packet(AuthPriv, protocol, engine, user, salt) :
              protocol \in {"DES", "AES"}, engine \in EngineIDLengths,
              user \in UserNameLengths, salt \in PrivacyLengths}

V3Init ==
    /\ FixedSession
    /\ WalkIdle
    /\ CodecIdle
    /\ SessionsIdle
    /\ ExporterIdle
    /\ v3Pc = "input"
    /\ v3In \in {[packet |-> packet,
                  pdus |-> <<WideVarbind(oidToString(<<1, 3, 6, 1>>), n)>>] :
                    packet \in V3Packets, n \in ValueLengths}
    /\ v3Wire = <<>>
    /\ v3AuthStart = 0
    /\ v3Tamper = [kind |-> "none", at |-> 0, bit |-> 0]
    /\ v3Rx = NoResult

V3MsgID == U32(0, 5)

V3RequestID == U32(0, 7)

\* marshalMsg up to the call of authenticate
V3MarshalMsg ==
    /\ v3Pc = "input"
    /\ LET m == marshalMsgV3(v3In.packet, v3In.pdus, V3MsgID, V3RequestID)
       IN  /\ v3Wire' = m.bytes
           /\ v3AuthStart' = m.authParamStart
           /\ v3Rx' = [v3Rx EXCEPT !.err = m.err]
           /\ v3Pc' = IF m.err = "nil" THEN "built" ELSE "done"
    /\ UNCHANGED <<v3In, v3Tamper>>
    /\ UNCHANGED <<sendVars, walkVars, codecVars, sessVars, expVars>>

\* the call of authenticate that ends marshalMsg
V3Authenticate ==
    /\ v3Pc = "built"
    /\ v3Wire' = authenticate(v3In.packet, v3Wire, v3AuthStart)
    /\ v3Pc' = "marshalled"
    /\ UNCHANGED <<v3In, v3AuthStart, v3Tamper, v3Rx>>
    /\ UNCHANGED <<sendVars, walkVars, codecVars, sessVars, expVars>>

\* the fields from cursor on, one for every entry of errors, which names the
\* error its field fails with
RECURSIVE parseFields(_, _, _, _)
parseFields(packet, cursor, errors, sofar) ==
    IF errors = <<>> THEN [err |-> "nil", cursor |-> cursor, fields |-> sofar]
    ELSE With(parseRawField(Drop(packet, cursor)), LAMBDA raw :
            IF raw.err # "nil"
            THEN [err |-> Head(errors), cursor |-> cursor, fields |-> sofar]
            ELSE parseFields(packet, cursor + raw.count, Tail(errors),
                             Append(sofar, raw)))

\* what unmarshal has of a message when it comes to the scoped PDU
Security(e, cursor, model, salt, engineID) ==
    [err |-> e, cursor |-> cursor, SecurityModel |-> model,
     PrivacyParameters |-> salt, AuthoritativeEngineID |-> engineID]

Rejected(e) == Security(e, 0, 0, <<>>, <<>>)

\* an unmarshal that looks at no digest
checksDigest_never(OrigMsgFlags) == FALSE

\* OrigMsgFlags&AuthNoPriv > 0: the flags of the session, not those of the
\* message, say whether its digest is checked
checksDigest(OrigMsgFlags) == HasAuth(OrigMsgFlags)

\* the security parameters of the user security model, from the cursor at
\* their sequence on, with the check of the digest
unmarshalUsm(packet, at, orig) ==
    IF packet[at + 1] # Sequence
    THEN Rejected("Error parsing SNMPV3 User Security Model parameters")
    ELSE
    With(parseFields(packet, at + parseLength(Drop(packet, at)).cursor,
                     <<"Error parsing SNMPV3 User Security Model msgAuthoritativeEngineID",
                       "Error parsing SNMPV3 User Security Model msgAuthoritativeEngineBoots",
                       "Error parsing SNMPV3 User Security Model msgAuthoritativeEngineTime",
                       "Error parsing SNMPV3 User Security Model msgUserName",
                       "Error parsing SNMPV3 User Security Model msgAuthenticationParameters">>,
                     <<>>),
         LAMBDA usm :
    IF usm.err # "nil" THEN Rejected(usm.err)
    ELSE
    With(usm.cursor - usm.fields[5].count, LAMBDA cursor :
    IF checksDigest(orig.MsgFlags) /\ usm.fields[5].count # 14
    THEN Rejected("Error authenticating incoming packet: msgAuthenticationParameters is not the correct size")
    ELSE IF checksDigest(orig.MsgFlags)
            /\ ~isAuthentic(Splice(packet, cursor + 2, [i \in 1..12 |-> 0]),
                            usm.fields[5].content, orig.AuthoritativeEngineID)
    THEN Rejected("Incoming packet is not authentic, discarding")
    ELSE
    With(parseRawField(Drop(packet, usm.cursor)), LAMBDA rawMsgPrivacyParameters :
    IF rawMsgPrivacyParameters.err # "nil"
    THEN Rejected("Error parsing SNMPV3 User Security Model msgPrivacyParameters")
    ELSE Security("nil", usm.cursor + rawMsgPrivacyParameters.count,
                  UserSecurityModel, rawMsgPrivacyParameters.content,
                  usm.fields[1].content))))

\* unmarshal of a message of version 3 up to its scoped PDU
unmarshalSecurity(received, orig) ==
    With(received, LAMBDA packet :
    IF packet = <<>> THEN Rejected("panic")
    ELSE IF packet[1] # Sequence THEN Rejected("Invalid packet header")
    ELSE IF lengthMismatch(Len(packet), parseLength(packet).length)
    THEN Rejected("Error verifying packet sanity")
    ELSE
    With(parseFields(packet, parseLength(packet).cursor,
                     <<"Error parsing SNMP packet version">>, <<>>),
         LAMBDA version :
    IF version.err # "nil" THEN Rejected(version.err)
    ELSE IF version.fields[1].content # <<Version3>>
    THEN Rejected("not of version 3")
    ELSE IF packet[version.cursor + 1] # Sequence
    THEN Rejected("Invalid SNMPV3 Header")
    ELSE
    With(parseFields(packet,
                     version.cursor + parseLength(Drop(packet, version.cursor)).cursor,
                     <<"Error parsing SNMPV3 message ID",
                       "Error parsing SNMPV3 maxMsgSize",
                       "Error parsing SNMPV3 msgFlags",
                       "Error parsing SNMPV3 msgSecModel">>,
                     <<>>),
         LAMBDA header :
    IF header.err # "nil" THEN Rejected(header.err)
    ELSE IF packet[header.cursor + 1] # OctetString
    THEN Rejected("Invalid SNMPV3 Security Parameters")
    ELSE
    With(header.cursor + parseLength(Drop(packet, header.cursor)).cursor,
         LAMBDA cursor :
    IF header.fields[4].tag = Integer
          /\ BigEndian(header.fields[4].content) = UserSecurityModel
    THEN unmarshalUsm(packet, cursor, orig)
    ELSE Security("nil", cursor, BigEndian(header.fields[4].content), <<>>,
                  orig.AuthoritativeEngineID)))))

\* what unmarshal gives back for a message of version 3
Unmarshalled(e, decrypted, variables) ==
    [err |-> e, decrypted |-> decrypted, cursor |-> 0, Variables |-> variables]

\* the scoped PDU in plain text from cursor on: context engine id, context
\* name and the PDU
unmarshalPlain(received, at, decrypted) ==
    With(SubSeq(received, 1, at + parseLength(Drop(received, at)).length),
         LAMBDA packet :
    With(parseFields(packet, at + parseLength(Drop(packet, at)).cursor,
                     <<"Error parsing SNMPV3 contextEngineID",
                       "Error parsing SNMPV3 contextName">>, <<>>),
         LAMBDA context :
    IF context.err # "nil" THEN Unmarshalled(context.err, decrypted, <<>>)
    ELSE IF packet[context.cursor + 1] \in {GetResponse, GetNextRequest,
                                            GetBulkRequest, Report, SNMPv2Trap}
    THEN With(unmarshalResponse(Drop(packet, context.cursor)), LAMBDA pdu :
            Unmarshalled(pdu.err, decrypted, pdu.Variables))
    ELSE Unmarshalled("Unknown PDUType", decrypted, <<>>)))

\* unmarshal of a message of version 3 from its scoped PDU on: an octet
\* string is deciphered first
unmarshalScoped(received, sec, orig) ==
    With(received, LAMBDA packet :
    With(sec.cursor, LAMBDA cursor :
    IF packet[cursor + 1] = OctetString
    THEN With(Drop(packet, cursor + parseLength(Drop(packet, cursor)).cursor),
              LAMBDA ciphertext :
         IF sec.SecurityModel # UserSecurityModel
         THEN unmarshalPlain(packet, cursor, FALSE)
         ELSE With(genlocalkey(sec.AuthoritativeEngineID), LAMBDA privkey :
              IF orig.PrivacyProtocol = "AES"
              THEN unmarshalPlain(
                        SubSeq(packet, 1, cursor)
                          \o XORKeyStream(privkey,
                                          AesIV([orig EXCEPT !.PrivacyParameters =
                                                     sec.PrivacyParameters]),
                                          ciphertext),
                        cursor, TRUE)
              ELSE IF Len(ciphertext) % BlockSize # 0
              THEN Unmarshalled("Error decrypting ScopedPDU: not multiple of des block size.",
                                FALSE, <<>>)
              ELSE IF Len(sec.PrivacyParameters) < 8
              THEN Unmarshalled("panic", FALSE, <<>>)
              ELSE unmarshalPlain(
                        SubSeq(packet, 1, cursor)
                          \o CBCDecrypt(privkey,
                                        DesIV(privkey, sec.PrivacyParameters),
                                        ciphertext),
                        cursor, TRUE)))
    ELSE IF packet[cursor + 1] = Sequence
    THEN unmarshalPlain(packet, cursor, FALSE)
    ELSE Unmarshalled("Error parsing SNMPV3 scoped PDU", FALSE, <<>>)))

\* b with its k-th bit turned over
FlipBit(b, k) ==
    IF (b \div (2 ^ k)) % 2 = 1 THEN b - 2 ^ k ELSE b + 2 ^ k

\* where the scoped PDU begins: behind the version, the header and the
\* security parameters
ScopedStart(msg) ==
    With(parseLength(msg).cursor + 3, LAMBDA header :
    With(header + parseLength(Drop(msg, header)).length, LAMBDA security :
        security + parseLength(Drop(msg, security)).length))

\* a message every length of which fits the one byte marshalMsg writes it in,
\* with the salt its cipher needs
WellFormed(input) ==
    /\ Len(input.packet.AuthoritativeEngineID) <= 127
    /\ Len(input.packet.UserName) <= 127
    /\ Len(input.packet.PrivacyParameters) \in {0, 8}
    /\ HasPriv(input.packet.MsgFlags) => Len(input.packet.PrivacyParameters) = 8
    /\ Len(input.pdus[1].Value.b) <= 100

\* the longest message that is tried with every bit of its scoped PDU
\* turned over
MaxFlipLen == 100

\* the message as the peer sends it, signed with the key both sides have
PeerMsg(input, scopedPdu) ==
    With(marshalMsgAround(input.packet, V3MsgID, scopedPdu), LAMBDA m :
        authenticate(input.packet, m.bytes, m.authParamStart))

\* a message of the peer comes in: as it was signed, or with one bit of its
\* scoped PDU turned over on the way, or one whose ciphertext the peer cut
\* short before signing
V3Receive ==
    /\ v3Pc = "marshalled"
    /\ WellFormed(v3In)
    /\ \/ /\ v3Tamper' = [kind |-> "none", at |-> 0, bit |-> 0]
          /\ v3Wire' = v3Wire
       \/ /\ HasAuth(v3In.packet.MsgFlags)
          /\ Len(v3Wire) <= MaxFlipLen
          /\ \E at \in (ScopedStart(v3Wire) + 1)..Len(v3Wire), bit \in 0..7 :
                /\ v3Tamper' = [kind |-> "flip", at |-> at, bit |-> bit]
                /\ v3Wire' = [v3Wire EXCEPT ![at] = FlipBit(@, bit)]
       \/ /\ HasPriv(v3In.packet.MsgFlags)
          /\ v3In.packet.PrivacyProtocol = "DES"
          /\ \E n \in 1..(BlockSize - 1) :
                /\ v3Tamper' = [kind |-> "cut", at |-> n, bit |-> 0]
                /\ v3Wire' =
                      With(Drop(v3Wire, ScopedStart(v3Wire)), LAMBDA scoped :
                      With(SubSeq(scoped, parseLength(scoped).cursor + 1,
                                  Len(scoped) - n),
                           LAMBDA ciphertext :
                         PeerMsg(v3In,
                                 <<OctetString>> \o marshalLength(Len(ciphertext))
                                   \o ciphertext)))
    /\ v3Pc' = "received"
    /\ UNCHANGED <<v3In, v3AuthStart, v3Rx>>
    /\ UNCHANGED <<sendVars, walkVars, codecVars, sessVars, expVars>>

\* unmarshal up to the scoped PDU
V3UnmarshalSecurity ==
    /\ v3Pc = "received"
    /\ LET sec == unmarshalSecurity(v3Wire, v3In.packet)
       IN  /\ v3Rx' = [v3Rx EXCEPT !.err = sec.err, !.cursor = sec.cursor]
           /\ v3Pc' = IF sec.err = "nil" THEN "scoped" ELSE "done"
    /\ UNCHANGED <<v3In, v3Wire, v3AuthStart, v3Tamper>>
    /\ UNCHANGED <<sendVars, walkVars, codecVars, sessVars, expVars>>

\* unmarshal from the scoped PDU on
V3UnmarshalScoped ==
    /\ v3Pc = "scoped"
    /\ v3Rx' = unmarshalScoped(v3Wire, unmarshalSecurity(v3Wire, v3In.packet),
                               v3In.packet)
    /\ v3Pc' = "done"
    /\ UNCHANGED <<v3In, v3Wire, v3AuthStart, v3Tamper>>
    /\ UNCHANGED <<sendVars, walkVars, codecVars, sessVars, expVars>>

V3Next ==
    \/ V3MarshalMsg
    \/ V3Authenticate
    \/ V3Receive
    \/ V3UnmarshalSecurity
    \/ V3UnmarshalScoped

V3Spec == V3Init /\ [][V3Next]_vars

\* ---------------------------------------------------- sessions and callers
\* the settings of the sessions
SessRetries == 1

SessTimeout == [s \in Sessions |-> 2 * s]

\* a field kept once for the process instead of once for every session
sessionField_shared(field, s, value) == [t \in DOMAIN field |-> value]

\* a field of the session x
sessionField(field, s, value) == [field EXCEPT ![s] = value]

SessTick ==
    /\ sessClock < MaxClock
    /\ sessClock' = sessClock + 1
    /\ lastCaller' = 0
    /\ UNCHANGED <<sessRequestID, sessDeadline, sessRxBuf, sessConn, callerPc,
                   callerReqIDs, callerCalls>>
    /\ UNCHANGED <<sendVars, walkVars, codecVars, expVars, v3Vars>>

\* a caller enters sendOneRequest
CallerSend(c) ==
    /\ callerPc[c] = "idle"
    /\ callerCalls < MaxCalls
    /\ callerCalls' = callerCalls + 1
    /\ callerPc' = [callerPc EXCEPT ![c] = "loop"]
    /\ callerReqIDs' = [callerReqIDs EXCEPT ![c] = <<>>]
    /\ lastCaller' = c
    /\ UNCHANGED <<sessRequestID, sessDeadline, sessRxBuf, sessConn, sessClock>>
    /\ UNCHANGED <<sendVars, walkVars, codecVars, expVars, v3Vars>>

\* one pass of the retry loop up to the write; the agent answers or not
CallerAttempt(c) ==
    LET s == SessionOf(c)
        reqID == AddUint32(sessRequestID[s])
    IN  /\ callerPc[c] = "loop"
        /\ ~retriesExhausted(Len(callerReqIDs[c]), SessRetries)
        /\ sessDeadline' = sessionField(sessDeadline, s,
                                        sessClock + SessTimeout[s] \div (SessRetries + 1))
        /\ sessRequestID' = sessionField(sessRequestID, s, reqID)
        /\ callerReqIDs' = [callerReqIDs EXCEPT ![c] = Append(@, reqID)]
        /\ \/ sessConn' = sessionField(sessConn, s, sessConn[s] \cup {reqID})
           \/ UNCHANGED sessConn
        /\ callerPc' = [callerPc EXCEPT ![c] = "receive"]
        /\ lastCaller' = c
        /\ UNCHANGED <<sessRxBuf, callerCalls, sessClock>>
        /\ UNCHANGED <<sendVars, walkVars, codecVars, expVars, v3Vars>>

\* the retries are used up
CallerGivesUp(c) ==
    /\ callerPc[c] = "loop"
    /\ retriesExhausted(Len(callerReqIDs[c]), SessRetries)
    /\ callerPc' = [callerPc EXCEPT ![c] = "idle"]
    /\ callerReqIDs' = [callerReqIDs EXCEPT ![c] = <<>>]
    /\ lastCaller' = c
    /\ UNCHANGED <<sessRequestID, sessDeadline, sessRxBuf, sessConn, callerCalls,
                   sessClock>>
    /\ UNCHANGED <<sendVars, walkVars, codecVars, expVars, v3Vars>>

\* receive reads a datagram into the buffer of the session
CallerReceive(c) ==
    LET s == SessionOf(c)
    IN  /\ callerPc[c] = "receive"
        /\ sessClock < sessDeadline[s]
        /\ \E d \in sessConn[s] :
              /\ sessRxBuf' = sessionField(sessRxBuf, s, <<d>>)
              /\ sessConn' = sessionField(sessConn, s, sessConn[s] \ {d})
              /\ IF validID(callerReqIDs[c], d)
                 THEN /\ callerPc' = [callerPc EXCEPT ![c] = "idle"]
                      /\ callerReqIDs' = [callerReqIDs EXCEPT ![c] = <<>>]
                 ELSE UNCHANGED <<callerPc, callerReqIDs>>
        /\ lastCaller' = c
        /\ UNCHANGED <<sessRequestID, sessDeadline, callerCalls, sessClock>>
        /\ UNCHANGED <<sendVars, walkVars, codecVars, expVars, v3Vars>>

\* the read deadline of the connection expires
CallerReceiveFails(c) ==
    /\ callerPc[c] = "receive"
    /\ sessClock >= sessDeadline[SessionOf(c)]
    /\ callerPc' = [callerPc EXCEPT ![c] = "loop"]
    /\ lastCaller' = c
    /\ UNCHANGED <<sessRequestID, sessDeadline, sessRxBuf, sessConn, callerReqIDs,
                   callerCalls, sessClock>>
    /\ UNCHANGED <<sendVars, walkVars, codecVars, expVars, v3Vars>>

\* every session starts its counter at a random value
SessionsInit ==
    /\ FixedSession
    /\ WalkIdle
    /\ CodecIdle
    /\ sessRequestID \in [Sessions -> {U32(0, 5), U32(Half - 1, Half - 2)}]
    /\ sessDeadline = [s \in Sessions |-> 0]
    /\ sessRxBuf = [s \in Sessions |-> <<>>]
    /\ sessConn = [s \in Sessions |-> {}]
    /\ callerPc = [c \in Callers |-> "idle"]
    /\ callerReqIDs = [c \in Callers |-> <<>>]
    /\ callerCalls = 0
    /\ sessClock = 0
    /\ lastCaller = 0
    /\ ExporterIdle
    /\ V3Idle

SessionsNext ==
    \/ SessTick
    \/ \E c \in Callers : CallerSend(c)
    \/ \E c \in Callers : CallerAttempt(c)
    \/ \E c \in Callers : CallerGivesUp(c)
    \/ \E c \in Callers : CallerReceive(c)
    \/ \E c \in Callers : CallerReceiveFails(c)

SessionsSpec == SessionsInit /\ [][SessionsNext]_vars

\* ---------------------------------------------------------------- exporter
\* the collect calls of Collect, in its order
CollectOrder == <<"system", "cpu", "load", "mem", "net", "disk">>

\* the identifiers SystemPlugin.Fetch asks for
SystemOids == 6

\* the positions of result.Variables SystemPlugin.Fetch reads
SystemPositions == {0, 1, 2, 3, 4, 8}

\* the positions of result.Variables MemoryPlugin.Fetch reads, one for each
\* of its identifiers
MemoryOids == 8

MemoryPositions == 0..(MemoryOids - 1)

\* the positions read by the Fetch of a plugin; the Fetch of the CPU, load
\* and network plugins is taken by its outcome only
Positions(f) ==
    CASE f = "system" -> SystemPositions
      [] f = "mem" -> MemoryPositions
      [] OTHER -> {}

\* the bindings a response to a Get may hold
MaxAgentBindings == 9

AgentBindings == {SystemOids, MemoryOids, MaxAgentBindings}

\* plugin.Fetch after a Get that returned n bindings without an error: an
\* index beyond the bindings panics, otherwise the metrics are returned
pluginFetch(f, n) ==
    IF \E p \in Positions(f) : p >= n THEN "panic" ELSE "metrics"

\* a collect function that gives up the rest of Collect on an error
collectFailed_ends(k) == [next |-> Len(CollectOrder) + 1, emitted |-> FALSE]

\* a collect function whose fetch returned an error: it logs, emits nothing
\* and returns to Collect, which calls the next one
collectFailed(k) == [next |-> k + 1, emitted |-> FALSE]

\* a scrape calls Collect of the one Exporter, with its one Client
Collect(s) ==
    /\ scrapePc[s] = "idle"
    /\ scrapePc' = [scrapePc EXCEPT ![s] = "connect"]
    /\ UNCHANGED <<scrapeFamily, expConn, scrapeRead, scrapeOut>>
    /\ UNCHANGED <<sendVars, walkVars, codecVars, sessVars, v3Vars>>

\* e.Client.Connect() returns, with an error or without
Connect(s) ==
    /\ scrapePc[s] = "connect"
    /\ \/ /\ scrapePc' = [scrapePc EXCEPT ![s] = "done"]
          /\ UNCHANGED scrapeFamily
       \/ /\ scrapePc' = [scrapePc EXCEPT ![s] = "collect"]
          /\ scrapeFamily' = [scrapeFamily EXCEPT ![s] = 1]
    /\ UNCHANGED <<expConn, scrapeRead, scrapeOut>>
    /\ UNCHANGED <<sendVars, walkVars, codecVars, sessVars, v3Vars>>

\* the next collect call: its plugin sends a Get on Client.SNMP, which the
\* agent answers or not; collectDiskMetrics sends nothing
Fetch(s) ==
    /\ scrapePc[s] = "collect"
    /\ scrapeFamily[s] <= Len(CollectOrder)
    /\ IF CollectOrder[scrapeFamily[s]] = "disk"
       THEN /\ scrapeFamily' = [scrapeFamily EXCEPT ![s] = @ + 1]
            /\ scrapeOut' = [scrapeOut EXCEPT ![s] =
                   [family |-> "disk", bindings |-> 0, outcome |-> "none",
                    emitted |-> FALSE, afterError |-> @.afterError]]
            /\ UNCHANGED <<scrapePc, expConn>>
       ELSE /\ scrapePc' = [scrapePc EXCEPT ![s] = "exchange"]
            /\ scrapeOut' = [scrapeOut EXCEPT ![s] =
                   [family |-> CollectOrder[scrapeFamily[s]], bindings |-> 0,
                    outcome |-> "pending", emitted |-> FALSE,
                    afterError |-> @.afterError]]
            /\ \/ expConn' = expConn \cup {s}
               \/ UNCHANGED expConn
            /\ UNCHANGED scrapeFamily
    /\ UNCHANGED scrapeRead
    /\ UNCHANGED <<sendVars, walkVars, codecVars, sessVars, v3Vars>>

\* receive reads a response out of the buffer of Client.SNMP; one with
\* another request id is dropped and the scrape reads again
FetchReceive(s) ==
    /\ scrapePc[s] = "exchange"
    /\ \E r \in expConn :
          /\ expConn' = expConn \ {r}
          /\ scrapeRead' = [scrapeRead EXCEPT ![s] = r]
          /\ IF r = s
             THEN \E n \in AgentBindings :
                     LET f == CollectOrder[scrapeFamily[s]]
                         out == pluginFetch(f, n)
                     IN  /\ scrapeOut' = [scrapeOut EXCEPT ![s] =
                                [family |-> f, bindings |-> n, outcome |-> out,
                                 emitted |-> (out = "metrics"),
                                 afterError |-> @.afterError]]
                         /\ IF out = "panic"
                            THEN /\ scrapePc' = [scrapePc EXCEPT ![s] = "panic"]
                                 /\ UNCHANGED scrapeFamily
                            ELSE /\ scrapePc' = [scrapePc EXCEPT ![s] = "collect"]
                                 /\ scrapeFamily' = [scrapeFamily EXCEPT ![s] = @ + 1]
             ELSE UNCHANGED <<scrapePc, scrapeFamily, scrapeOut>>
    /\ UNCHANGED <<sendVars, walkVars, codecVars, sessVars, v3Vars>>

\* the Get times out; the collect call logs the error and returns
FetchFails(s) ==
    /\ scrapePc[s] = "exchange"
    /\ scrapePc' = [scrapePc EXCEPT ![s] = "collect"]
    /\ scrapeFamily' = [scrapeFamily EXCEPT ![s] = collectFailed(@).next]
    /\ scrapeOut' = [scrapeOut EXCEPT ![s] =
           [family |-> CollectOrder[scrapeFamily[s]], bindings |-> 0,
            outcome |-> "error",
            emitted |-> collectFailed(scrapeFamily[s]).emitted,
            afterError |-> TRUE]]
    /\ UNCHANGED <<expConn, scrapeRead>>
    /\ UNCHANGED <<sendVars, walkVars, codecVars, sessVars, v3Vars>>

\* Collect returns
CollectReturns(s) ==
    /\ scrapePc[s] = "collect"
    /\ scrapeFamily[s] > Len(CollectOrder)
    /\ scrapePc' = [scrapePc EXCEPT ![s] = "done"]
    /\ UNCHANGED <<scrapeFamily, expConn, scrapeRead, scrapeOut>>
    /\ UNCHANGED <<sendVars, walkVars, codecVars, sessVars, v3Vars>>

ExporterInit ==
    /\ FixedSession
    /\ WalkIdle
    /\ CodecIdle
    /\ SessionsIdle
    /\ ExporterIdle
    /\ V3Idle

ExporterNext ==
    \/ \E s \in Scrapes : Collect(s)
    \/ \E s \in Scrapes : Connect(s)
    \/ \E s \in Scrapes : Fetch(s)
    \/ \E s \in Scrapes : FetchReceive(s)
    \/ \E s \in Scrapes : FetchFails(s)
    \/ \E s \in Scrapes : CollectReturns(s)

ExporterSpec == ExporterInit /\ [][ExporterNext]_vars

Next ==
    \/ Tick
    \/ Send
    \/ AttemptGivesUp
    \/ Attempt
    \/ Receive
    \/ ReceiveFails
    \/ Return

Spec == Init /\ [][Next]_vars

TypeOK ==
    /\ Retries \in -1..MaxRetries
    /\ pc \in {"idle", "loop", "receive", "done"}
    /\ requestID \in (0..(Half - 1)) \X (0..(Half - 1))
    /\ Len(result) <= 1

\* ------------------------------------------------------------ the claims
\* what a datagram is, in the words of the claims
Malformed(d) ==
    d.n = 0 \/ d.tag0 # Sequence \/ d.n # d.declLen \/ ~d.fieldsOK

DigestFails(d) ==
    /\ ~Malformed(d)
    /\ d.version = Version3 /\ d.secModel = UserSecurityModel
    /\ (MsgFlags % 2) = AuthNoPriv /\ ~d.authentic

UnexpectedPDU(d) ==
    /\ ~Malformed(d) /\ ~DigestFails(d)
    /\ d.pdu \notin {GetResponse, GetNextRequest, GetBulkRequest, Report, SNMPv2Trap}

Decodes(d) == ~Malformed(d) /\ ~DigestFails(d) /\ ~UnexpectedPDU(d) /\ d.nvars >= 1

Attempts == Len(allReqIDs)

Accepted(d) == pc = "done" /\ err = "nil" /\ result = <<Decoded(d)>>

\* C1: a response that reaches the identifier check of sendOneRequest is
\* accepted as the result if and only if its request identifier is that of
\* one of the attempts made so far in this logical request, or is 0.
C1_IdentifierMatching ==
    (lastAct = "receive" /\ Decodes(lastRx.d)) =>
        (Accepted(lastRx.d) <=>
            (lastRx.d.rid \in Range(allReqIDs) \/ lastRx.d.rid = U32(0, 0)))

\* a response to an earlier attempt, already timed out, is accepted
C1_Witness ==
    /\ lastAct = "receive" /\ Decodes(lastRx.d) /\ Accepted(lastRx.d)
    /\ Attempts >= 2
    /\ lastRx.d.rid = allReqIDs[1]
    /\ lastRx.d.rid # U32(0, 0)

\* C2 as stated: with every response lost, a logical request makes exactly
\* Retries+1 attempts before it reports the timeout.
C2_Original ==
    (pc = "done" /\ allLost) => (Attempts = Retries + 1 /\ sent = Retries + 1)

\* C2 as amended: with every response lost, a logical request makes at most
\* Retries+1 attempts, each sending one datagram, and exactly Retries+1
\* unless a retry test finds the overall deadline passed, in which case it
\* stops there with the timeout error.
C2_Amended ==
    (pc = "done" /\ allLost) =>
        /\ sent = Attempts
        /\ Attempts <= Retries + 1
        /\ err \in {"Request timeout", "Error reading from UDP"}
        /\ \/ Attempts = Retries + 1
           \/ err = "Request timeout" /\ now > finalDeadline

C2_Witness ==
    /\ pc = "done" /\ allLost
    /\ Retries = MaxRetries
    /\ Attempts = Retries + 1
    /\ err = "Error reading from UDP"

\* C3: whatever the failures, a logical request makes at most Retries+1
\* attempts; an attempt after the first starts only when neither the
\* deadline has passed nor the retries are used up, and a retry test that
\* finds either ends the loop without an attempt.
C3_AttemptBound ==
    [][ /\ Len(allReqIDs') <= Retries' + 1
        /\ (Len(allReqIDs') > Len(allReqIDs) =>
               (retries = 0 \/ (now <= finalDeadline /\ retries <= Retries)))
        /\ (pc = "loop" /\ retries > 0 /\ now' = now
              /\ (now > finalDeadline \/ retries > Retries) =>
                  (pc' = "done" /\ allReqIDs' = allReqIDs /\ sent' = sent
                     /\ result' = <<>>)) ]_vars

\* the retries are used up by a mix of a failed write and undecodable datagrams
C3_Witness ==
    /\ pc = "done" /\ lastAct = "giveup"
    /\ Retries = MaxRetries
    /\ Attempts = Retries + 1
    /\ sent < Attempts
    /\ Malformed(lastRx.d) /\ lastRx.d.n # 0

C5_Original ==
    (pc = "done" /\ err = "Request timeout") => errCount = sent

\* C5 as amended: the count in the timeout error is the number of retries,
\* that is the number of attempts started (a failed write included) less one.
C5_Amended ==
    (pc = "done" /\ err = "Request timeout") => errCount = Attempts - 1

C5_Witness ==
    /\ pc = "done" /\ err = "Request timeout"
    /\ Attempts >= 2
    /\ sent < Attempts

\* C6: a decoded response whose identifier is neither that of an attempt of
\* this logical request nor 0 is discarded: the session keeps receiving, and
\* no datagram is sent, no identifier allocated, and the retry counter, the
\* identifiers and the deadlines stay as they were.
C6_MismatchDiscarded ==
    [][ (lastAct' = "receive" /\ Decodes(lastRx.d)'
           /\ lastRx'.d.rid \notin Range(allReqIDs)
           /\ lastRx'.d.rid # U32(0, 0)) =>
          /\ pc' = "receive"
          /\ result' = <<>>
          /\ UNCHANGED <<sent, requestID, retries, allReqIDs, reqDeadline,
                         finalDeadline>> ]_vars

C6_Witness ==
    /\ lastAct = "receive" /\ Decodes(lastRx.d)
    /\ lastRx.d.rid \notin Range(allReqIDs)
    /\ lastRx.d.rid # U32(0, 0)
    /\ pc = "receive"
    /\ Attempts >= 2

\* C7: a datagram that cannot be decoded never ends the logical request: the
\* session keeps receiving.
C7_MalformedNeverEnds ==
    (lastAct = "receive" /\ Malformed(lastRx.d)) => pc = "receive"

\* C8 as stated: a v3 response whose digest does not verify ends the logical
\* request at once with an error.
C8_Original ==
    (lastAct = "receive" /\ DigestFails(lastRx.d)) =>
        (pc = "done" /\ err # "nil" /\ result = <<>>)

\* C8 as amended: a v3 response whose digest does not verify is never
\* returned and does not end the logical request: it is discarded as
\* undecodable, nothing is sent again for it, and the session keeps
\* receiving within the same per-attempt deadline.
C8_Amended ==
    [][ (lastAct' = "receive" /\ DigestFails(lastRx.d)') =>
          /\ pc' = "receive"
          /\ result' = <<>>
          /\ err' = "Unable to decode packet"
          /\ UNCHANGED <<sent, requestID, retries, allReqIDs, reqDeadline,
                         finalDeadline>> ]_vars

\* the discarded response carried the identifier of an attempt
C8_Witness ==
    /\ lastAct = "receive" /\ DigestFails(lastRx.d)
    /\ lastRx.d.rid \in Range(allReqIDs)
    /\ pc = "receive"

\* C9 as stated: a response with an unexpected PDU type ends the logical
\* request at once with an error.
C9_Original ==
    (lastAct = "receive" /\ UnexpectedPDU(lastRx.d)) =>
        (pc = "done" /\ err # "nil" /\ result = <<>>)

\* C9 as amended: a response with an unexpected PDU type is never returned
\* and does not end the logical request: it is discarded as undecodable,
\* nothing is sent again for it, and the session keeps receiving within the
\* same per-attempt deadline.
C9_Amended ==
    [][ (lastAct' = "receive" /\ UnexpectedPDU(lastRx.d)') =>
          /\ pc' = "receive"
          /\ result' = <<>>
          /\ err' = "Unable to decode packet"
          /\ UNCHANGED <<sent, requestID, retries, allReqIDs, reqDeadline,
                         finalDeadline>> ]_vars

C9_Witness ==
    /\ lastAct = "receive" /\ UnexpectedPDU(lastRx.d)
    /\ lastRx.d.pdu = GetRequest
    /\ lastRx.d.rid \in Range(allReqIDs)
    /\ pc = "receive"

\* the walk ended at the binding of position idx of the last response
EndedAt(type) ==
    wpc = "done" /\ idx >= 1 /\ response[idx].Type = type

\* C10: when the walk comes to a binding of type end-of-mib-view, it has
\* passed to the callback every binding before it, of that response and of
\* all earlier responses, and nothing else; it returns without error and,
\* once returned, issues no request and passes no binding.
C10_EndOfMibView ==
    /\ [](EndedAt("EndOfMibView") =>
            /\ walkErr = "nil"
            /\ Len(yielded) = nPrior + idx - 1
            /\ \A i \in 1..(idx - 1) : yielded[nPrior + i] = response[i])
    /\ [][wpc = "done" => (requests' = requests /\ yielded' = yielded)]_vars

\* the end-of-mib-view binding stands in the second response, between two
\* other bindings
C10_Witness ==
    /\ EndedAt("EndOfMibView")
    /\ requests = 2 /\ nPrior >= 1
    /\ idx = 2 /\ Len(response) = 3
    /\ response[3].Type = "Integer" /\ HasPrefix(response[3].Name, rootOid)


\* the arcs behind the names a walk handles
OidArcs == {<<1, 1>>, <<1, 1, 1>>, <<1, 10>>, <<1, 2>>, <<1, 3, 6, 1, 2, 1>>}

ArcsOf(name) == CHOOSE a \in OidArcs : oidToString(a) = name

\* a before or equal to b in the order of object identifiers
RECURSIVE OidLeq(_, _)
OidLeq(a, b) ==
    IF a = <<>> THEN TRUE
    ELSE IF b = <<>> THEN FALSE
    ELSE IF Head(a) # Head(b) THEN Head(a) < Head(b)
    ELSE OidLeq(Tail(a), Tail(b))

\* a in the subtree below root, arc by arc
InSubtree(a, root) ==
    Len(root) <= Len(a) /\ SubSeq(a, 1, Len(root)) = root

NotIncreasing(v) ==
    /\ v.Type = "Integer"
    /\ InSubtree(ArcsOf(v.Name), ArcsOf(rootOid))
    /\ OidLeq(ArcsOf(v.Name), ArcsOf(oid))

\* C11: a binding inside the root subtree whose identifier is not after the
\* cursor ends the walk with the error "OID not increasing", and the callback
\* gets neither this binding nor a later one.
C11_NotIncreasing ==
    [][(wpc = "range" /\ NotIncreasing(response[idx + 1]))
          => /\ wpc' = "done"
             /\ walkErr' = "OID not increasing"
             /\ yielded' = yielded]_vars


\* C12: every walk comes to an end, whatever the agent answers, also when its
\* identifiers go backwards or repeat in a cycle.
C12_WalkEnds == <>(wpc = "done")

\* C13: when a request of a walk fails, walk returns the error of that
\* request, sends no further request and hands no further binding to the
\* callback; walkAll returns the same error.
C13_RequestError ==
    /\ [](getErr # "nil"
            => (wpc = "done" /\ walkErr = getErr /\ walkAll.err = getErr))
    /\ [][getErr # "nil" => (requests' = requests /\ yielded' = yielded)]_vars

C13_Witness ==
    /\ getErr = "Request timeout"
    /\ wpc = "done"
    /\ requests = 2
    /\ Len(yielded) > 0


\* the lengths the bytes at hand declare, against the bytes at hand
OuterMismatch == parseLength(wire).length # Len(wire)

PDUMismatch ==
    /\ ~OuterMismatch
    /\ parseLength(Drop(wire, PDUStart(wire))).length # Len(wire) - PDUStart(wire)

VBLMismatch ==
    /\ ~OuterMismatch
    /\ ~PDUMismatch
    /\ parseLength(Drop(wire, VBLStart(wire))).length # Len(wire) - VBLStart(wire)

\* C14: a packet whose outer length is not the number of bytes received is
\* rejected with a decode error, be it longer or shorter than declared, and
\* so is one whose PDU or whose varbind list declares another length than the
\* bytes it has.
C14_LengthChecked ==
    codecPc = "decoded"
      => /\ OuterMismatch => rxPacket.err = "Error verifying packet sanity"
         /\ PDUMismatch
              => rxPacket.err \in {"Error verifying Response sanity", "Unknown PDUType"}
         /\ VBLMismatch
              => rxPacket.err \in {"Error verifying: packet length", "Unknown PDUType"}

C14_Witness ==
    /\ codecPc = "decoded"
    /\ tamper = "longer"
    /\ Len(txPdus) = 3
    /\ OuterMismatch
    /\ rxPacket.err = "Error verifying packet sanity"

\* C15: a binding of any kind of value, marshalled and then unmarshalled,
\* comes back with the same name, type and value.
C15_RoundTrip ==
    (/\ codecPc \in {"failed", "decoded"}
     /\ Len(txPdus) = 1
     /\ txType = GetResponse
     /\ tamper = "none")
      => /\ txErr = "nil"
         /\ rxPacket.err = "nil"
         /\ rxPacket.Variables = txPdus


\* the varbinds of a varbind list, each with its header, as they lie in the
\* bytes
RECURSIVE SplitVarbinds(_)
SplitVarbinds(bytes) ==
    IF bytes = <<>> THEN <<>>
    ELSE LET n == parseLength(bytes).length
         IN  <<SubSeq(bytes, 1, n)>> \o SplitVarbinds(Drop(bytes, n))

WireVarbinds(packet) ==
    LET vbl == Drop(packet, VBLStart(packet))
    IN  SplitVarbinds(Drop(vbl, parseLength(vbl).cursor))

\* one varbind of the wire, decoded on its own
Alone(varbind) ==
    unmarshalVBL(<<Sequence>> \o marshalLength(Len(varbind)) \o varbind).Variables

\* C16: the i-th varbind of a marshalled message is the i-th binding the
\* caller gave, and the i-th entry of Variables of a decoded message is the
\* i-th varbind of its bytes.
C16_OrderPreserved ==
    /\ codecPc = "marshalled"
         => LET onWire == WireVarbinds(wire)
            IN  /\ Len(onWire) = Len(txPdus)
                /\ \A i \in 1..Len(txPdus) :
                      onWire[i] = marshalVarbind(txPdus[i]).bytes
    /\ (codecPc = "decoded" /\ rxPacket.err = "nil")
         => LET onWire == WireVarbinds(wire)
            IN  /\ Len(rxPacket.Variables) = Len(onWire)
                /\ \A i \in 1..Len(onWire) :
                      <<rxPacket.Variables[i]>> = Alone(onWire[i])

C16_Witness ==
    /\ codecPc = "decoded"
    /\ rxPacket.err = "nil"
    /\ Len(txPdus) = 3
    /\ txPdus[1].Name # txPdus[3].Name
    /\ \A i \in 1..3 : rxPacket.Variables[i].Name = txPdus[i].Name


\* the order of 32-bit numbers
U32Less(a, b) == a[1] < b[1] \/ (a[1] = b[1] /\ a[2] < b[2])

\* C17: over the life of a session the identifier of every attempt is
\* greater than the one of the attempt before, hence than all earlier ones.
C17_Increasing ==
    [][requestID' # requestID => U32Less(requestID, requestID')]_vars


\* C18: the attempts in flight on one session all carry different
\* identifiers, those of one caller and those of different callers alike.
C18_UniqueInFlight ==
    \A c1, c2 \in Callers :
       SessionOf(c1) = SessionOf(c2)
         => \A i \in DOMAIN callerReqIDs[c1], j \in DOMAIN callerReqIDs[c2] :
               (c1 # c2 \/ i # j) => callerReqIDs[c1][i] # callerReqIDs[c2][j]

C18_Witness ==
    /\ callerPc[1] = "receive"
    /\ callerPc[2] = "receive"
    /\ Len(callerReqIDs[1]) = 2
    /\ Len(callerReqIDs[2]) = 2
    /\ U32(0, 0) \in Range(callerReqIDs[1]) \cup Range(callerReqIDs[2])

\* C20: a step of a caller leaves the counter, the connection, the deadline
\* and the receive buffer of every session but its own as they were.
C20_NoSharedState ==
    [][\A c \in Callers :
          lastCaller' = c
            => \A t \in Sessions \ {SessionOf(c)} :
                  /\ sessRequestID'[t] = sessRequestID[t]
                  /\ sessConn'[t] = sessConn[t]
                  /\ sessDeadline'[t] = sessDeadline[t]
                  /\ sessRxBuf'[t] = sessRxBuf[t]]_vars

C20_Witness ==
    /\ lastCaller = 3
    /\ callerPc[3] = "idle"
    /\ sessRxBuf[2] # <<>>
    /\ callerPc[1] = "receive"
    /\ sessConn[1] # {}
    /\ sessRequestID[1] # sessRequestID[2]

C22_DiscoveryFirst ==
    [][ /\ (Version = Version3 /\ allReqIDs = <<>> /\ allReqIDs' # <<>>)
              => lastAct = "discovery"
        /\ (Version = Version3 /\ sent' > sent) => lastAct # "discovery failed"
        /\ lastAct' = "discovery failed"
              => /\ pc' = "done"
                 /\ err' \in DiscoveryOutcomes \ {"nil"}
                 /\ sent' = 0
                 /\ allReqIDs' = <<>>
                 /\ requestID' = requestID ]_vars

C22_Witness ==
    /\ lastAct = "discovery failed"
    /\ pc = "done"
    /\ err = "discovery failed"
    /\ reqNo = 2

\* where twelve zero bytes stand behind the header of an octet string of
\* twelve bytes
ZeroFields(msg) ==
    {i \in 3..(Len(msg) - 11) :
        /\ msg[i - 2] = OctetString
        /\ msg[i - 1] = 12
        /\ \A j \in 0..11 : msg[i + j] = 0}

\* C23: in a message with the authentication flag the offset given to
\* authenticate is the place of the first of the twelve zero bytes, whatever
\* the lengths of engine id, user name, privacy parameters and scoped PDU.
C23_AuthOffset ==
    (v3Pc = "built" /\ HasAuth(v3In.packet.MsgFlags))
        => ZeroFields(v3Wire) = {v3AuthStart + 1}

\* privacy parameters of 130 bytes: the sequence of the security parameters
\* has a length of two bytes, and so has the message
C23_Witness ==
    /\ v3Pc = "built"
    /\ v3In.packet.MsgFlags = AuthPriv
    /\ Len(v3In.packet.AuthoritativeEngineID) = 5
    /\ Len(v3In.packet.UserName) = 4
    /\ Len(v3In.packet.PrivacyParameters) = 130
    /\ ZeroFields(v3Wire) = {v3AuthStart + 1}
    /\ v3Wire[2] = 129

\* C24: a signed message one bit of whose scoped PDU was turned over on the
\* way is rejected by the check of its digest.
C24_TamperRejected ==
    (v3Tamper.kind = "flip" /\ v3Pc \in {"scoped", "done"})
        => /\ v3Pc = "done"
           /\ v3Rx.err = "Incoming packet is not authentic, discarding"

\* the highest bit of the last byte of an enciphered scoped PDU
C24_Witness ==
    /\ v3Pc = "done" /\ v3Tamper.kind = "flip"
    /\ v3In.packet.MsgFlags = AuthPriv
    /\ v3Tamper.at = Len(v3Wire) /\ v3Tamper.bit = 7
    /\ v3Rx.err = "Incoming packet is not authentic, discarding"

\* the content of the octet string or sequence that ends a message
CipherText(msg) ==
    With(Drop(msg, ScopedStart(msg)), LAMBDA scoped :
        Drop(scoped, parseLength(scoped).cursor))

UsesDes(packet) == HasPriv(packet.MsgFlags) /\ packet.PrivacyProtocol = "DES"

\* C25: with DES the scoped PDU is padded so that the cipher takes it, and
\* the ciphertext of a marshalled message is a positive multiple of eight
\* bytes long; a message whose ciphertext is not comes
\* back from unmarshal with the error of the block size, nothing deciphered.
C25_DesBlocks ==
    /\ (/\ v3Pc # "input" /\ UsesDes(v3In.packet)
        /\ Len(v3In.packet.PrivacyParameters) >= 8)
          => v3Wire # <<>>
    /\ (v3Pc \in {"built", "marshalled"} /\ UsesDes(v3In.packet))
          => /\ v3Wire[ScopedStart(v3Wire) + 1] = OctetString
             /\ Len(CipherText(v3Wire)) > 0
             /\ Len(CipherText(v3Wire)) % BlockSize = 0
    /\ (/\ v3Pc = "done" /\ v3Wire # <<>> /\ v3Tamper.kind # "flip"
        /\ UsesDes(v3In.packet)
        /\ Len(CipherText(v3Wire)) % BlockSize # 0)
          => /\ v3Rx.err = "Error decrypting ScopedPDU: not multiple of des block size."
             /\ ~v3Rx.decrypted
             /\ v3Rx.Variables = <<>>

\* a ciphertext three bytes short of its blocks
C25_Witness ==
    /\ v3Pc = "done" /\ v3Tamper.kind = "cut" /\ v3Tamper.at = 3
    /\ UsesDes(v3In.packet)
    /\ Len(CipherText(v3Wire)) % BlockSize = 5
    /\ v3Rx.err = "Error decrypting ScopedPDU: not multiple of des block size."
    /\ ~v3Rx.decrypted

\* a field as the length rule writes it: tag, length, content
TLV(tag, content) == <<tag>> \o marshalLength(Len(content)) \o content

\* a binding with an octet string, every length by the length rule
RuleVarbind(pdu) ==
    TLV(Sequence, TLV(ObjectIdentifier, marshalOID(pdu.Name))
                    \o TLV(pdu.Type, pdu.Value.b))

RECURSIVE RuleVarbinds(_)
RuleVarbinds(pdus) ==
    IF pdus = <<>> THEN <<>>
    ELSE RuleVarbind(Head(pdus)) \o RuleVarbinds(Tail(pdus))

\* a message of version 1 or 2c, every length by the length rule
RuleMsg(version, community, pdus, pdutype, requestid) ==
    TLV(Sequence,
        <<Integer, 1, version>>
          \o TLV(OctetString, community)
          \o TLV(pdutype,
                 <<Integer, 4>> \o Uint32Bytes(requestid)
                   \o <<Integer, 1, 0>> \o <<Integer, 1, 0>>
                   \o TLV(Sequence, RuleVarbinds(pdus))))

\* C26: the bytes of a marshalled message are those the length rule gives:
\* every field, the community and every binding with its sequence declares
\* the number of content bytes it has, in one byte up to 127 and in long form
\* above.
C26_LengthRule ==
    codecPc = "marshalled"
      => wire = RuleMsg(Version2c, txCommunity, txPdus, txType, txID)


\* a binding that ends the walk without an error: not below the root, as
\* strings.HasPrefix sees it, or of a type that stands for no object
EndsWalk(v) ==
    \/ v.Type \in {"NoSuchObject", "NoSuchInstance"}
    \/ ~HasPrefix(v.Name, rootOid)

\* C27: a binding without the root as prefix, or of type no-such-object or
\* no-such-instance, ends the walk: the callback gets neither it nor a later
\* binding, no request follows and walk returns no error.
C27_EndsWithoutError ==
    [][(wpc = "range" /\ EndsWalk(response[idx + 1]))
          => /\ wpc' = "done"
             /\ walkErr' = "nil"
             /\ yielded' = yielded
             /\ requests' = requests]_vars

\* a binding outside the root, in the second response, with bindings yielded
\* before it and a binding after it
C27_Witness ==
    /\ wpc = "done" /\ walkErr = "nil"
    /\ requests = 2
    /\ idx >= 1 /\ idx < Len(response)
    /\ response[idx].Type = "Integer"
    /\ ~HasPrefix(response[idx].Name, rootOid)
    /\ Len(yielded) = nPrior + idx - 1
    /\ Len(yielded) >= 2

\* the roots after walk has normalised them
NormalisedRoots == {baseOid, oidToString(<<1, 1>>)}

\* C28: the cursor starts as the normalised root; after a response whose
\* bindings were all passed to the callback it is the name of the last of
\* them; no other step changes it.
C28_Cursor ==
    [][/\ (wpc = "idle" /\ wpc' = "request")
            => (oid' = rootOid' /\ rootOid' \in NormalisedRoots)
       /\ (wpc = "range" /\ wpc' = "request")
            => /\ oid' = response[Len(response)].Name
               /\ Len(yielded') = nPrior + Len(response)
               /\ \A i \in 1..Len(response) : yielded'[nPrior + i] = response[i]
       /\ (wpc' # "request" \/ wpc = "request") => oid' = oid]_vars

\* the cursor after a response of two bindings with different names
C28_Witness ==
    /\ wpc = "request" /\ requests = 1
    /\ Len(response) = 2
    /\ oid = response[2].Name
    /\ oid # response[1].Name
    /\ oid # rootOid
    /\ yielded = response

\* C29: every binding passed to the callback lies in the subtree of the
\* root, arc by arc.
C29_InsideSubtree ==
    \A i \in 1..Len(yielded) :
        InSubtree(ArcsOf(yielded[i].Name), ArcsOf(rootOid))

\* C30: when the callback returns an error the walk ends at once with that
\* error: the binding it failed on is the last one passed, and no request
\* follows.
C30_CallbackError ==
    /\ [](fnErr # "nil" => (wpc = "done" /\ walkErr = fnErr))
    /\ [][(wpc = "range" /\ fnErr' # "nil")
            => /\ wpc' = "done"
               /\ walkErr' = fnErr'
               /\ requests' = requests
               /\ yielded' = Append(yielded, response[idx + 1])]_vars

\* the callback fails in the second response, on a binding that is not the
\* last one of it
C30_Witness ==
    /\ fnErr = "walkFn" /\ wpc = "done" /\ walkErr = "walkFn"
    /\ requests = 2
    /\ idx >= 1 /\ idx < Len(response)
    /\ Len(yielded) = nPrior + idx
    /\ yielded[Len(yielded)] = response[idx]

\* C19: with Collect called by overlapping scrapes, never are two exchanges,
\* or a Connect and an exchange, in progress on the one session, and no scrape
\* reads the response to the request of another.
C19_Serialized ==
    /\ Cardinality({s \in Scrapes : scrapePc[s] \in {"connect", "exchange"}}) <= 1
    /\ \A s \in Scrapes : scrapeRead[s] \in {0, s}

\* ------------------------------------------- the request loop, once more
\* the session asks for authentication
Authenticating == Version = Version3 /\ (MsgFlags % 2) = AuthNoPriv

\* sendOneRequest returned (send's own return after a failed discovery is
\* not one of its returns)
Returned == pc = "done" /\ lastAct # "discovery failed"

\* C31: with the authentication flag set on the request, every response
\* sendOneRequest accepts as its result has passed the digest check,
\* whatever version and security model the response declares
C31_DigestChecked ==
    (Authenticating /\ wait /\ Accepted(lastRx.d) /\ lastAct = "receive")
        => lastRx.d.authentic

\* C32: no per-attempt deadline lies beyond the overall deadline, so an
\* attempt never waits for a response past request start plus Timeout
C32_WithinTimeout ==
    pc = "receive" => reqDeadline <= finalDeadline

\* C33: a marshal failure is not retried: the request ends at that attempt
\* with the marshal error, nothing is sent for it and no further request
\* identifier is allocated
C33_MarshalNotRetried ==
    [][/\ (pc = "loop" /\ lastAct' = "marshal failed")
            => /\ pc' = "done"
               /\ err' = "marshal"
               /\ result' = <<>>
               /\ sent' = sent
               /\ retries' = retries
       /\ lastAct = "marshal failed"
            => /\ requestID' = requestID
               /\ sent' \in {sent, 0}
               /\ pc' = "idle"]_vars

C33_Witness ==
    /\ lastAct = "marshal failed"
    /\ pc = "done"
    /\ err = "marshal"
    /\ retries > 0
    /\ Attempts = retries + 1
    /\ sent = 0

\* C34: with wait = true sendOneRequest returns exactly one of a decoded
\* packet and an error, never neither and never both
C34_ResultXorError ==
    (Returned /\ wait)
        => /\ (result = <<>>) # (err = "nil")
           /\ Len(result) <= 1
           /\ result # <<>> => result[1] = Decoded(lastRx.d)

C34_Witness ==
    /\ Returned
    /\ wait
    /\ lastAct = "giveup"
    /\ retries > Retries
    /\ ~deadlinePassed(now, finalDeadline)
    /\ result = <<>>
    /\ err = "Error reading from UDP"

\* C35: a response that decodes but carries no binding is never a result:
\* the receive loop goes on receiving, and every packet returned with
\* wait = true has at least one binding
C35_NoEmptyResult ==
    /\ (Returned /\ wait /\ err = "nil" /\ result # <<>>)
           => result[1].NVars >= 1
    /\ (lastAct = "receive" /\ lastRx.u = "ok" /\ lastRx.d.nvars < 1)
           => /\ pc = "receive"
              /\ result = <<>>
              /\ err = "Unable to decode packet: nil"

C35_Witness ==
    /\ lastAct = "receive"
    /\ lastRx.u = "ok"
    /\ lastRx.d.nvars = 0
    /\ validID(allReqIDs, lastRx.d.rid)
    /\ pc = "receive"

\* C36: a negative Retries behaves as 0: send resets it before the request,
\* one attempt is made and the divisor of the per-attempt deadline is 1
C36_NegativeRetries ==
    [][/\ (pc = "idle" /\ pc' # "idle" /\ Retries < 0) => Retries' = 0
       /\ pc' # "idle" => Retries' + 1 >= 1
       /\ (configured < 0 /\ pc' # "idle")
            => /\ Retries' = 0
               /\ Len(allReqIDs') <= 1
               /\ allReqIDs' # allReqIDs => reqDeadline' = now + Timeout
               /\ (pc' = "done" /\ lastAct' # "discovery failed")
                     => Len(allReqIDs') = 1]_vars

C36_Witness ==
    /\ configured < 0
    /\ Retries = 0
    /\ Returned
    /\ lastAct = "giveup"
    /\ Attempts = 1
    /\ retries = 1

\* ------------------------------------------------------------ the plugins
\* C37: SystemPlugin.Fetch reads only positions that exist in a response
\* holding one binding for each identifier it asked for, and returns its six
\* metrics from such a response without failing
C37_SystemPositions ==
    \A s \in Scrapes :
        (scrapeOut[s].family = "system" /\ scrapeOut[s].bindings = SystemOids)
            => /\ scrapeOut[s].outcome = "metrics"
               /\ \A p \in SystemPositions : p < scrapeOut[s].bindings

====
